---- MODULE Spec2Model ----
(***************************************************************************)
(* Model of backend/compliance_checker.py (class ComplianceChecker): the   *)
(* rule-based compliance, risk and clause-detection engine.                *)
(*                                                                         *)
(* Document texts, catalog terms and keywords are character strings and    *)
(* every match is computed character by character (str.lower(), the `in`   *)
(* substring test, re.finditer).  Scores, which the code holds in floats,  *)
(* are exact rationals [n, d] in lowest terms: rounding of the binary      *)
(* representation is not modelled.                                         *)
(***************************************************************************)
EXTENDS Integers, Sequences, FiniteSets, TLC

VARIABLES compliance_rules, clause_patterns, extracted_text, call, result, inflight,
          request, temp_files

vars == <<compliance_rules, clause_patterns, extracted_text, call, result, inflight,
          request, temp_files>>

(***************************************************************************)
(* Bounds of the model.                                                    *)
(***************************************************************************)
\* a document is at most this many sentences of the pool Sentences
MaxSentences == 2
\* a requested regulation list names at most this many regulations
MaxRegs == 3
\* the longest list of clause types a caller requests
MaxTypes == 2
\* the number of requests served at the same time
MaxCalls == 2

(***************************************************************************)
(* Strings: str.lower() and the `in` substring test.                       *)
(***************************************************************************)
UpperAlphabet == "ABCDEFGHIJKLMNOPQRSTUVWXYZ"

LowerAlphabet == "abcdefghijklmnopqrstuvwxyz"

Digits == "0123456789"

\* the characters of the string s, as a set of one-character strings
CharsOf(s) == { SubSeq(s, i, i) : i \in 1..Len(s) }

\* the lower-case letter of every upper-case letter
LowerOf ==
  [c \in CharsOf(UpperAlphabet) |->
     LET i == CHOOSE j \in 1..Len(UpperAlphabet) : SubSeq(UpperAlphabet, j, j) = c
     IN  SubSeq(LowerAlphabet, i, i)]

LowerChar(c) == IF c \in DOMAIN LowerOf THEN LowerOf[c] ELSE c

\* str.lower(): every character mapped, the string split in halves
RECURSIVE Lower(_)
Lower(s) ==
  IF Len(s) = 0 THEN ""
  ELSE IF Len(s) = 1 THEN LowerChar(s)
  ELSE LET h == Len(s) \div 2
       IN  Lower(SubSeq(s, 1, h)) \o Lower(SubSeq(s, h + 1, Len(s)))

\* Python's `term in s`
Contains(term, s) ==
  \E i \in 0..(Len(s) - Len(term)) : SubSeq(s, i + 1, i + Len(term)) = term

(***************************************************************************)
(* Exact rationals for the float-valued scores.                            *)
(***************************************************************************)
Abs(a) == IF a < 0 THEN -a ELSE a

RECURSIVE GCD(_, _)
GCD(a, b) == IF b = 0 THEN a ELSE GCD(b, a % b)

\* n/d in lowest terms, d > 0
Rat(n, d) == LET g == GCD(Abs(n), d) IN [n |-> n \div g, d |-> d \div g]

RatInt(k) == [n |-> k, d |-> 1]

RatAdd(a, b) == Rat(a.n * b.d + b.n * a.d, a.d * b.d)

RatSub(a, b) == Rat(a.n * b.d - b.n * a.d, a.d * b.d)

RatMulInt(a, k) == Rat(a.n * k, a.d)

RatDivInt(a, k) == Rat(a.n, a.d * k)

RatLeq(a, b) == a.n * b.d <= b.n * a.d

RatLt(a, b) == a.n * b.d < b.n * a.d

RatMax(a, b) == IF RatLeq(b, a) THEN a ELSE b

RatMin(a, b) == IF RatLeq(a, b) THEN a ELSE b

(***************************************************************************)
(* The rule catalog.                                                       *)
(***************************************************************************)
\* ComplianceChecker._load_compliance_rules
LoadComplianceRules ==
  [GDPR |->
     [required_terms |-> <<"data protection", "personal data", "data subject rights",
                           "consent", "data processor", "data controller">>,
      prohibited_terms |-> <<"unlimited data retention", "no data subject rights">>,
      risk_indicators |-> <<"automatic data processing", "profiling", "sensitive data">>],
   CCPA |->
     [required_terms |-> <<"california consumer privacy act", "personal information",
                           "consumer rights", "opt-out", "data deletion">>,
      prohibited_terms |-> <<"no consumer rights", "mandatory data sharing">>,
      risk_indicators |-> <<"sale of personal information", "third-party sharing">>],
   SOX |->
     [required_terms |-> <<"financial disclosure", "internal controls", "audit",
                           "financial reporting", "compliance certification">>,
      prohibited_terms |-> <<"no financial oversight", "unrestricted access">>,
      risk_indicators |-> <<"related party transactions", "off-balance sheet">>],
   HIPAA |->
     [required_terms |-> <<"protected health information", "phi", "business associate",
                           "minimum necessary", "security safeguards">>,
      prohibited_terms |-> <<"unrestricted phi access", "no security measures">>,
      risk_indicators |-> <<"phi disclosure", "unsecured transmission">>]]

\* the insertion order of the compliance_rules dict, which its iteration follows
RegulationOrder == <<"GDPR", "CCPA", "SOX", "HIPAA">>

(***************************************************************************)
(* Compliance scoring.                                                     *)
(***************************************************************************)
\* dict.get(key, [])
Get(rules, key) == IF key \in DOMAIN rules THEN rules[key] ELSE <<>>

\* the terms of a catalog list that occur in the lower-cased text, in list order
\* TermsIn putting every term found in front of the list
TermsInReversed(terms, text_lower) ==
  LET found == SelectSeq(terms, LAMBDA term : Contains(Lower(term), text_lower))
  IN  [i \in 1..Len(found) |-> found[Len(found) + 1 - i]]

TermsIn(terms, text_lower) ==
  SelectSeq(terms, LAMBDA term : Contains(Lower(term), text_lower))

TermsNotIn(terms, text_lower) ==
  SelectSeq(terms, LAMBDA term : ~Contains(Lower(term), text_lower))

\* RegulationScore with the two penalty weights exchanged
RegulationScoreSwapped(required_terms, found_required, prohibited_found, risk_factors) ==
  IF required_terms # <<>>
  THEN LET compliance_ratio == Rat(Len(found_required), Len(required_terms))
           penalty          == Rat(Len(prohibited_found) * 1, 10)
           risk_penalty     == Rat(Len(risk_factors) * 2, 10)
       IN  RatMax(RatInt(0),
                  RatMulInt(RatSub(RatSub(compliance_ratio, penalty), risk_penalty), 100))
  ELSE RatInt(100)

\* RegulationScore charging the penalties to a regulation without required terms
RegulationScorePenalised(required_terms, found_required, prohibited_found, risk_factors) ==
  LET compliance_ratio == IF required_terms # <<>>
                          THEN Rat(Len(found_required), Len(required_terms))
                          ELSE RatInt(1)
      penalty          == Rat(Len(prohibited_found) * 2, 10)
      risk_penalty     == Rat(Len(risk_factors) * 1, 10)
  IN  RatMax(RatInt(0),
             RatMulInt(RatSub(RatSub(compliance_ratio, penalty), risk_penalty), 100))

\* RegulationScore without the max(0, ...) clamp
RegulationScoreUnclamped(required_terms, found_required, prohibited_found, risk_factors) ==
  IF required_terms # <<>>
  THEN LET compliance_ratio == Rat(Len(found_required), Len(required_terms))
           penalty          == Rat(Len(prohibited_found) * 2, 10)
           risk_penalty     == Rat(Len(risk_factors) * 1, 10)
       IN  RatMulInt(RatSub(RatSub(compliance_ratio, penalty), risk_penalty), 100)
  ELSE RatInt(100)

\* RegulationScore with the ratio of the missing terms in place of the ratio
\* of the found ones
RegulationScoreMissingRatio(required_terms, found_required, prohibited_found, risk_factors) ==
  IF required_terms # <<>>
  THEN LET compliance_ratio == Rat(Len(required_terms) - Len(found_required), Len(required_terms))
           penalty          == Rat(Len(prohibited_found) * 2, 10)
           risk_penalty     == Rat(Len(risk_factors) * 1, 10)
       IN  RatMax(RatInt(0),
                  RatMulInt(RatSub(RatSub(compliance_ratio, penalty), risk_penalty), 100))
  ELSE RatInt(100)

\* the score of one regulation from its four list lengths: the
\* "Calculate score" block of _check_single_regulation
RegulationScore(required_terms, found_required, prohibited_found, risk_factors) ==
  IF required_terms # <<>>
  THEN LET compliance_ratio == Rat(Len(found_required), Len(required_terms))
           penalty          == Rat(Len(prohibited_found) * 2, 10)
           risk_penalty     == Rat(Len(risk_factors) * 1, 10)
       IN  RatMax(RatInt(0),
                  RatMulInt(RatSub(RatSub(compliance_ratio, penalty), risk_penalty), 100))
  ELSE RatInt(100)

\* _check_single_regulation searching the text as written, not lower-cased
CheckSingleRegulationCaseSensitive(text, regulation, rules) ==
  LET text_lower       == text
      required_terms   == Get(rules, "required_terms")
      found_required   == TermsIn(required_terms, text_lower)
      missing_required == TermsNotIn(required_terms, text_lower)
      prohibited_found == TermsIn(Get(rules, "prohibited_terms"), text_lower)
      risk_factors     == TermsIn(Get(rules, "risk_indicators"), text_lower)
  IN  [regulation           |-> regulation,
       score                |-> RegulationScore(required_terms, found_required,
                                                prohibited_found, risk_factors),
       found_requirements   |-> found_required,
       missing_requirements |-> missing_required,
       risk_factors         |-> risk_factors,
       prohibited_found     |-> prohibited_found]

\* ComplianceChecker._check_single_regulation
_check_single_regulation(text, regulation, rules) ==
  LET text_lower       == Lower(text)
      required_terms   == Get(rules, "required_terms")
      found_required   == TermsIn(required_terms, text_lower)
      missing_required == TermsNotIn(required_terms, text_lower)
      prohibited_found == TermsIn(Get(rules, "prohibited_terms"), text_lower)
      risk_factors     == TermsIn(Get(rules, "risk_indicators"), text_lower)
  IN  [regulation           |-> regulation,
       score                |-> RegulationScore(required_terms, found_required,
                                                prohibited_found, risk_factors),
       found_requirements   |-> found_required,
       missing_requirements |-> missing_required,
       risk_factors         |-> risk_factors,
       prohibited_found     |-> prohibited_found]

\* ', '.join(strs)
RECURSIVE Join(_)
Join(strs) ==
  IF strs = <<>> THEN ""
  ELSE IF Len(strs) = 1 THEN strs[1]
  ELSE strs[1] \o ", " \o Join(Tail(strs))

\* strs[:k]
Prefix(strs, k) == SubSeq(strs, 1, IF Len(strs) < k THEN Len(strs) ELSE k)

\* _generate_recommendations appending the good-compliance notice without
\* testing that the list is empty
RecommendationsAlwaysGood(compliance_results) ==
  LET r1 == IF RatLt(compliance_results.overall_score, RatInt(70))
            THEN <<"Document requires significant compliance improvements">>
            ELSE <<>>
      r2 == IF compliance_results.missing_requirements # <<>>
            THEN <<"Add missing compliance requirements: "
                   \o Join(Prefix(compliance_results.missing_requirements, 3))>>
            ELSE <<>>
      r3 == IF compliance_results.risk_factors # <<>>
            THEN <<"Review and address identified risk factors">>
            ELSE <<>>
  IN  r1 \o r2 \o r3 \o <<"Document shows good compliance. Consider periodic review.">>

\* ComplianceChecker._generate_recommendations
_generate_recommendations(compliance_results) ==
  LET r1 == IF RatLt(compliance_results.overall_score, RatInt(70))
            THEN <<"Document requires significant compliance improvements">>
            ELSE <<>>
      r2 == IF compliance_results.missing_requirements # <<>>
            THEN <<"Add missing compliance requirements: "
                   \o Join(Prefix(compliance_results.missing_requirements, 3))>>
            ELSE <<>>
      r3 == IF compliance_results.risk_factors # <<>>
            THEN <<"Review and address identified risk factors">>
            ELSE <<>>
      recommendations == r1 \o r2 \o r3
  IN  IF recommendations = <<>>
      THEN <<"Document shows good compliance. Consider periodic review.">>
      ELSE recommendations

\* the accumulators both compliance entry points start from
EmptyReport ==
  [regulations          |-> <<>>,
   missing_requirements |-> <<>>,
   risk_factors         |-> <<>>,
   total_score          |-> RatInt(0),
   regulation_count     |-> 0]

\* EvaluateInto collecting a missing requirement only when it is not yet in
\* the aggregated list
EvaluateIntoDeduplicated(acc, text, regulation, rules) ==
  LET reg_result == _check_single_regulation(text, regulation, rules)
      collected  == { acc.missing_requirements[i] : i \in DOMAIN acc.missing_requirements }
  IN  [regulations          |-> (regulation :> reg_result) @@ acc.regulations,
       missing_requirements |-> acc.missing_requirements
                                \o SelectSeq(reg_result.missing_requirements,
                                             LAMBDA term : term \notin collected),
       risk_factors         |-> acc.risk_factors \o reg_result.risk_factors,
       total_score          |-> RatAdd(acc.total_score, reg_result.score),
       regulation_count     |-> acc.regulation_count + 1]

\* one iteration of the loop body shared by both entry points: evaluate the
\* regulation, store its result under its name and add to the running totals
EvaluateInto(acc, text, regulation, rules) ==
  LET reg_result == _check_single_regulation(text, regulation, rules)
  IN  [regulations          |-> (regulation :> reg_result) @@ acc.regulations,
       missing_requirements |-> acc.missing_requirements \o reg_result.missing_requirements,
       risk_factors         |-> acc.risk_factors \o reg_result.risk_factors,
       total_score          |-> RatAdd(acc.total_score, reg_result.score),
       regulation_count     |-> acc.regulation_count + 1]

\* FinishReport scoring 100 when no regulation was evaluated
FinishReportDefaultHundred(acc) ==
  LET results == [overall_score        |-> IF acc.regulation_count > 0
                                           THEN RatDivInt(acc.total_score, acc.regulation_count)
                                           ELSE RatInt(100),
                  regulations          |-> acc.regulations,
                  missing_requirements |-> acc.missing_requirements,
                  risk_factors         |-> acc.risk_factors]
  IN  [overall_score        |-> results.overall_score,
       regulations          |-> results.regulations,
       missing_requirements |-> results.missing_requirements,
       risk_factors         |-> results.risk_factors,
       recommendations      |-> _generate_recommendations(results)]

\* the tail of both entry points: overall score, then recommendations
FinishReport(acc) ==
  LET results == [overall_score        |-> IF acc.regulation_count > 0
                                           THEN RatDivInt(acc.total_score, acc.regulation_count)
                                           ELSE RatInt(0),
                  regulations          |-> acc.regulations,
                  missing_requirements |-> acc.missing_requirements,
                  risk_factors         |-> acc.risk_factors]
  IN  [overall_score        |-> results.overall_score,
       regulations          |-> results.regulations,
       missing_requirements |-> results.missing_requirements,
       risk_factors         |-> results.risk_factors,
       recommendations      |-> _generate_recommendations(results)]

\* the loop of check_compliance over compliance_rules.items(), from entry i on
RECURSIVE AllRegulationsLoop(_, _, _, _)
AllRegulationsLoop(rules_catalog, text, i, acc) ==
  IF i > Len(RegulationOrder) THEN acc
  ELSE LET regulation == RegulationOrder[i]
       IN  AllRegulationsLoop(rules_catalog, text, i + 1,
                              EvaluateInto(acc, text, regulation, rules_catalog[regulation]))

\* check_compliance with a loop that starts at the second catalog entry
CheckComplianceFromSecond(rules_catalog, text) ==
  FinishReport(AllRegulationsLoop(rules_catalog, text, 2, EmptyReport))

\* ComplianceChecker.check_compliance
check_compliance(rules_catalog, text) ==
  FinishReport(AllRegulationsLoop(rules_catalog, text, 1, EmptyReport))

\* RequestedStep counting an unknown name as a regulation evaluated
RequestedStepCountingUnknown(acc, rules_catalog, text, regulation) ==
  IF regulation \in DOMAIN rules_catalog
  THEN EvaluateInto(acc, text, regulation, rules_catalog[regulation])
  ELSE [acc EXCEPT !.regulation_count = @ + 1]

\* the body of the loop of check_specific_compliance: a name that is not a
\* key of compliance_rules is skipped
RequestedStep(acc, rules_catalog, text, regulation) ==
  IF regulation \in DOMAIN rules_catalog
  THEN EvaluateInto(acc, text, regulation, rules_catalog[regulation])
  ELSE acc

\* the loop of check_specific_compliance over the requested names, from entry i on
RECURSIVE RequestedLoop(_, _, _, _, _)
RequestedLoop(rules_catalog, text, regulations, i, acc) ==
  IF i > Len(regulations) THEN acc
  ELSE RequestedLoop(rules_catalog, text, regulations, i + 1,
                     RequestedStep(acc, rules_catalog, text, regulations[i]))

\* ComplianceChecker.check_specific_compliance
check_specific_compliance(rules_catalog, text, regulations) ==
  FinishReport(RequestedLoop(rules_catalog, text, regulations, 1, EmptyReport))

(***************************************************************************)
(* Risk scoring.                                                           *)
(***************************************************************************)
\* the risk_factors table of calculate_risk_score, in dict order
RiskFactorTable ==
  << [risk_level |-> "high_risk",
      terms |-> <<"unlimited liability", "personal guarantee", "liquidated damages",
                  "automatic renewal", "non-compete", "exclusive dealing",
                  "penalty clause", "forfeiture">>,
      weight |-> 3],
     [risk_level |-> "medium_risk",
      terms |-> <<"indemnification", "force majeure", "intellectual property",
                  "confidentiality breach", "termination for convenience",
                  "governing law", "arbitration mandatory">>,
      weight |-> 2],
     [risk_level |-> "low_risk",
      terms |-> <<"standard warranty", "mutual agreement", "reasonable notice",
                  "good faith", "best efforts", "industry standard">>,
      weight |-> 1] >>

\* RiskLevelOf testing the MEDIUM threshold first
RiskLevelOfMediumFirst(total_risk_score) ==
  IF total_risk_score >= 8 THEN "MEDIUM"
  ELSE IF total_risk_score >= 15 THEN "HIGH"
  ELSE "LOW"

\* "Determine risk level" of calculate_risk_score
RiskLevelOf(total_risk_score) ==
  IF total_risk_score >= 15 THEN "HIGH"
  ELSE IF total_risk_score >= 8 THEN "MEDIUM"
  ELSE "LOW"

\* ScaleRiskScore without the min(100, ...) cap
ScaleRiskScoreUncapped(total_risk_score) == total_risk_score * 5

\* "Scale to 100" of calculate_risk_score
\* ScaleRiskScore with a factor of 10
ScaleRiskScoreTimesTen(total_risk_score) ==
  IF total_risk_score * 10 < 100 THEN total_risk_score * 10 ELSE 100

ScaleRiskScore(total_risk_score) ==
  IF total_risk_score * 5 < 100 THEN total_risk_score * 5 ELSE 100

\* _generate_risk_recommendations adding the closing line for a HIGH level
\* instead of for a non-empty high_risk list
RiskRecommendationsAttentionWhenHigh(risk_analysis) ==
  (IF risk_analysis.risk_level = "HIGH"
   THEN <<"High-risk document requires legal review before execution",
          "Consider negotiating terms to reduce liability exposure">>
   ELSE IF risk_analysis.risk_level = "MEDIUM"
   THEN <<"Medium-risk document should be reviewed by legal counsel",
          "Ensure adequate insurance coverage for identified risks">>
   ELSE <<"Low-risk document with standard terms",
          "Periodic review recommended for ongoing compliance">>)
  \o
  (IF risk_analysis.risk_level = "HIGH"
   THEN <<"Pay special attention to high-risk clauses identified">>
   ELSE <<>>)

\* ComplianceChecker._generate_risk_recommendations
_generate_risk_recommendations(risk_analysis) ==
  (IF risk_analysis.risk_level = "HIGH"
   THEN <<"High-risk document requires legal review before execution",
          "Consider negotiating terms to reduce liability exposure">>
   ELSE IF risk_analysis.risk_level = "MEDIUM"
   THEN <<"Medium-risk document should be reviewed by legal counsel",
          "Ensure adequate insurance coverage for identified risks">>
   ELSE <<"Low-risk document with standard terms",
          "Periodic review recommended for ongoing compliance">>)
  \o
  (IF risk_analysis.factors_found.high_risk # <<>>
   THEN <<"Pay special attention to high-risk clauses identified">>
   ELSE <<>>)

\* BucketScan adding the weight for every term of the bucket, found or not
BucketScanEveryWeight(bucket, text_lower) ==
  LET found_terms == TermsIn(bucket.terms, text_lower)
  IN  [found_terms |-> found_terms, added |-> Len(bucket.terms) * bucket.weight]

\* the inner loop of calculate_risk_score for one bucket: the terms found,
\* each adding the bucket's weight once
BucketScan(bucket, text_lower) ==
  LET found_terms == TermsIn(bucket.terms, text_lower)
  IN  [found_terms |-> found_terms, added |-> Len(found_terms) * bucket.weight]

\* ComplianceChecker.calculate_risk_score
calculate_risk_score(text) ==
  LET text_lower == Lower(text)
      high   == BucketScan(RiskFactorTable[1], text_lower)
      medium == BucketScan(RiskFactorTable[2], text_lower)
      low    == BucketScan(RiskFactorTable[3], text_lower)
      total_risk_score == high.added + medium.added + low.added
      risk_analysis ==
        [overall_score |-> ScaleRiskScore(total_risk_score),
         risk_level    |-> RiskLevelOf(total_risk_score),
         factors_found |-> [high_risk   |-> high.found_terms,
                            medium_risk |-> medium.found_terms,
                            low_risk    |-> low.found_terms]]
  IN  [overall_score   |-> risk_analysis.overall_score,
       risk_level      |-> risk_analysis.risk_level,
       factors_found   |-> risk_analysis.factors_found,
       recommendations |-> _generate_risk_recommendations(risk_analysis)]

(***************************************************************************)
(* Regular expressions: the fragment of Python's re the clause patterns    *)
(* use.  A pattern is a sequence of items: a literal, a character class    *)
(* with a greedy repetition count lo..hi (hi = -1: unbounded), or an      *)
(* optional group (?:...)?.  With re.IGNORECASE the lower-case patterns   *)
(* are matched against the lower-cased text; offsets are 0-based.          *)
(***************************************************************************)
Lit(str) == [k |-> "lit", s |-> str, lo |-> 1, hi |-> 1, sub |-> <<>>]

Cls(c, lo, hi) == [k |-> "cls", s |-> c, lo |-> lo, hi |-> hi, sub |-> <<>>]

Opt(sub) == [k |-> "opt", s |-> "", lo |-> 0, hi |-> 1, sub |-> sub]

Whitespace == {" ", "\t", "\n", "\r"}

WordChars == CharsOf(LowerAlphabet) \cup CharsOf(UpperAlphabet) \cup CharsOf(Digits) \cup {"_"}

\* membership of the character ch in \w, \s, \d, [\d,] and .
InClass(c, ch) ==
  CASE c = "w"  -> ch \in WordChars
    [] c = "s"  -> ch \in Whitespace
    [] c = "d"  -> ch \in CharsOf(Digits)
    [] c = "d," -> ch \in CharsOf(Digits) \cup {","}
    [] c = "."  -> ch # "\n"

SetMin(S) == CHOOSE x \in S : \A y \in S : x <= y

SetMax(S) == CHOOSE x \in S : \A y \in S : y <= x

\* the length of the longest run of characters of class c from offset pos,
\* at most hi of them when hi is not -1
RunLength(c, hi, text, pos) ==
  LET limit == IF hi = -1 \/ Len(text) - pos < hi THEN Len(text) - pos ELSE hi
      stops == { j \in 1..limit : ~InClass(c, SubSeq(text, pos + j, pos + j)) }
  IN  IF stops = {} THEN limit ELSE SetMin(stops) - 1

\* the end offset of the match of items that the backtracking matcher
\* prefers at offset pos, or -1 when items do not match there
RECURSIVE MatchEnd(_, _, _)
MatchEnd(items, text, pos) ==
  IF items = <<>> THEN pos
  ELSE LET it   == Head(items)
           rest == Tail(items)
       IN  CASE it.k = "lit" ->
                  IF pos + Len(it.s) <= Len(text)
                     /\ SubSeq(text, pos + 1, pos + Len(it.s)) = it.s
                  THEN MatchEnd(rest, text, pos + Len(it.s))
                  ELSE -1
             [] it.k = "cls" ->
                  LET run  == RunLength(it.s, it.hi, text, pos)
                      lens == { j \in it.lo..run : MatchEnd(rest, text, pos + j) # -1 }
                  IN  IF lens = {} THEN -1
                      ELSE MatchEnd(rest, text, pos + SetMax(lens))
             [] it.k = "opt" ->
                  LET taken == MatchEnd(it.sub \o rest, text, pos)
                  IN  IF taken # -1 THEN taken ELSE MatchEnd(rest, text, pos)

\* the matches at or after offset from, given the end offset of the match at
\* every offset: leftmost first, the search resuming where a match ended
RECURSIVE ScanFrom(_, _, _)
ScanFrom(ends, n, from) ==
  LET starts == { p \in from..(n - 1) : ends[p] # -1 }
  IN  IF starts = {} THEN <<>>
      ELSE LET p == SetMin(starts)
           IN  <<[start |-> p, end |-> ends[p]]>> \o ScanFrom(ends, n, ends[p])

\* re.finditer(pattern, text, re.IGNORECASE): the non-overlapping matches,
\* left to right, as [start, end) offsets
FindIter(items, text) ==
  LET text_lower == Lower(text)
      ends == [p \in 0..(Len(text) - 1) |-> MatchEnd(items, text_lower, p)]
  IN  ScanFrom(ends, Len(text), 0)

\* str.strip()
Strip(str) ==
  LET inked == { i \in 1..Len(str) : SubSeq(str, i, i) \notin Whitespace }
  IN  IF inked = {} THEN "" ELSE SubSeq(str, SetMin(inked), SetMax(inked))

(***************************************************************************)
(* The clause-pattern catalog.                                             *)
(***************************************************************************)
\* ComplianceChecker._load_clause_patterns
LoadClausePatterns ==
  [termination |->
     [patterns |-> << <<Lit("terminat"), Cls("w", 1, -1)>>,
                      <<Lit("end"), Cls("s", 1, -1), Opt(<<Lit("this"), Cls("s", 1, -1)>>),
                        Lit("agreement")>>,
                      <<Lit("expir"), Cls("w", 1, -1)>>,
                      <<Lit("dissolv"), Cls("w", 1, -1)>>,
                      <<Lit("breach"), Cls(".", 0, -1), Lit("terminat"), Cls("w", 1, -1)>> >>,
      keywords |-> <<"terminate", "termination", "end", "expire", "dissolution">>],
   liability |->
     [patterns |-> << <<Lit("liabilit"), Cls("w", 1, -1)>>,
                      <<Lit("liable"), Cls("s", 1, -1), Lit("for")>>,
                      <<Lit("damages")>>,
                      <<Lit("indemnif"), Cls("w", 1, -1)>>,
                      <<Lit("limitation"), Cls("s", 1, -1), Lit("of"), Cls("s", 1, -1),
                        Lit("liability")>> >>,
      keywords |-> <<"liability", "liable", "damages", "indemnify", "limitation">>],
   payment |->
     [patterns |-> << <<Lit("payment"), Cls("s", 1, -1), Lit("terms")>>,
                      <<Lit("invoice"), Cls("w", 0, -1)>>,
                      <<Lit("fee"), Cls("s", 1, -1), Lit("schedule")>>,
                      <<Lit("compensation")>>,
                      <<Lit("$"), Cls("d,", 1, -1), Opt(<<Lit("."), Cls("d", 2, 2)>>)>> >>,
      keywords |-> <<"payment", "invoice", "fee", "compensation", "cost">>],
   confidentiality |->
     [patterns |-> << <<Lit("confidential"), Cls("w", 0, -1)>>,
                      <<Lit("non"), Cls(".", 0, 1), Lit("disclosure")>>,
                      <<Lit("proprietary"), Cls("s", 1, -1), Lit("information")>>,
                      <<Lit("trade"), Cls("s", 1, -1), Lit("secret"), Cls("w", 0, -1)>>,
                      <<Lit("confidentiality"), Cls("s", 1, -1), Lit("agreement")>> >>,
      keywords |-> <<"confidential", "non-disclosure", "proprietary", "trade secret">>],
   intellectual_property |->
     [patterns |-> << <<Lit("intellectual"), Cls("s", 1, -1), Lit("property")>>,
                      <<Lit("copyright"), Cls("w", 0, -1)>>,
                      <<Lit("trademark"), Cls("w", 0, -1)>>,
                      <<Lit("patent"), Cls("w", 0, -1)>>,
                      <<Lit("trade"), Cls("s", 1, -1), Lit("secret"), Cls("w", 0, -1)>> >>,
      keywords |-> <<"intellectual property", "copyright", "trademark", "patent">>],
   dispute_resolution |->
     [patterns |-> << <<Lit("dispute"), Cls("s", 1, -1), Lit("resolution")>>,
                      <<Lit("arbitration")>>,
                      <<Lit("mediation")>>,
                      <<Lit("governing"), Cls("s", 1, -1), Lit("law")>>,
                      <<Lit("jurisdiction")>> >>,
      keywords |-> <<"dispute", "arbitration", "mediation", "governing law">>],
   force_majeure |->
     [patterns |-> << <<Lit("force"), Cls("s", 1, -1), Lit("majeure")>>,
                      <<Lit("act"), Cls("s", 1, -1), Lit("of"), Cls("s", 1, -1), Lit("god")>>,
                      <<Lit("unforeseeable"), Cls("s", 1, -1), Lit("circumstances")>>,
                      <<Lit("beyond"), Cls("s", 1, -1), Lit("reasonable"), Cls("s", 1, -1),
                        Lit("control")>> >>,
      keywords |-> <<"force majeure", "act of god", "unforeseeable">>]]

(***************************************************************************)
(* Clause detection.                                                       *)
(***************************************************************************)
\* MatchEntry with a window that ends 50 characters after the start of the
\* match instead of after its end
MatchEntryWindowFromStart(text, m) ==
  LET start == IF m.start - 50 > 0 THEN m.start - 50 ELSE 0
      end   == IF m.start + 50 < Len(text) THEN m.start + 50 ELSE Len(text)
  IN  [match    |-> SubSeq(text, m.start + 1, m.end),
       context  |-> Strip(SubSeq(text, start + 1, end)),
       position |-> m.start]

\* the dict appended to clause_matches for one regex match
MatchEntry(text, m) ==
  LET start == IF m.start - 50 > 0 THEN m.start - 50 ELSE 0
      end   == IF m.end + 50 < Len(text) THEN m.end + 50 ELSE Len(text)
  IN  [match    |-> SubSeq(text, m.start + 1, m.end),
       context  |-> Strip(SubSeq(text, start + 1, end)),
       position |-> m.start]

\* the "Pattern matching" loop of detect_clauses: the matches of every
\* pattern from the i-th on, pattern after pattern
RECURSIVE CollectMatches(_, _, _)
CollectMatches(patterns, text, i) ==
  IF i > Len(patterns) THEN <<>>
  ELSE LET found == FindIter(patterns[i], text)
       IN  [j \in 1..Len(found) |-> MatchEntry(text, found[j])]
           \o CollectMatches(patterns, text, i + 1)

\* _calculate_clause_confidence without the final min(..., 1.0)
ConfidenceUnbounded(clause_matches, keyword_matches) ==
  LET pattern_score == RatMin(Rat(Len(clause_matches) * 4, 10), RatInt(1))
      keyword_score == RatMin(Rat(Len(keyword_matches) * 2, 10), Rat(6, 10))
  IN  RatAdd(pattern_score, keyword_score)

\* ComplianceChecker._calculate_clause_confidence
_calculate_clause_confidence(clause_matches, keyword_matches) ==
  LET pattern_score == RatMin(Rat(Len(clause_matches) * 4, 10), RatInt(1))
      keyword_score == RatMin(Rat(Len(keyword_matches) * 2, 10), Rat(6, 10))
  IN  RatMin(RatAdd(pattern_score, keyword_score), RatInt(1))

\* ClauseEntry reporting a clause type found only when a pattern matched
ClauseEntryPatternsOnly(clause_matches, keyword_matches) ==
  IF clause_matches # <<>>
  THEN [found          |-> TRUE,
        matches        |-> Prefix(clause_matches, 3),
        keywords_found |-> keyword_matches,
        confidence     |-> _calculate_clause_confidence(clause_matches, keyword_matches)]
  ELSE [found          |-> FALSE,
        matches        |-> <<>>,
        keywords_found |-> <<>>,
        confidence     |-> RatInt(0)]

\* ClauseEntry storing the last three matches instead of the first three
ClauseEntryLastThree(clause_matches, keyword_matches) ==
  IF clause_matches # <<>> \/ keyword_matches # <<>>
  THEN [found          |-> TRUE,
        matches        |-> SubSeq(clause_matches,
                                  IF Len(clause_matches) > 3 THEN Len(clause_matches) - 2 ELSE 1,
                                  Len(clause_matches)),
        keywords_found |-> keyword_matches,
        confidence     |-> _calculate_clause_confidence(clause_matches, keyword_matches)]
  ELSE [found          |-> FALSE,
        matches        |-> <<>>,
        keywords_found |-> <<>>,
        confidence     |-> RatInt(0)]

\* the entry detect_clauses stores for one clause type
ClauseEntry(clause_matches, keyword_matches) ==
  IF clause_matches # <<>> \/ keyword_matches # <<>>
  THEN [found          |-> TRUE,
        matches        |-> Prefix(clause_matches, 3),
        keywords_found |-> keyword_matches,
        confidence     |-> _calculate_clause_confidence(clause_matches, keyword_matches)]
  ELSE [found          |-> FALSE,
        matches        |-> <<>>,
        keywords_found |-> <<>>,
        confidence     |-> RatInt(0)]

\* ComplianceChecker.detect_clauses
detect_clauses(patterns_catalog, text) ==
  [clause_type \in DOMAIN patterns_catalog |->
     LET patterns_data   == patterns_catalog[clause_type]
         clause_matches  == CollectMatches(patterns_data.patterns, text, 1)
         keyword_matches == TermsIn(patterns_data.keywords, Lower(text))
     IN  ClauseEntry(clause_matches, keyword_matches)]

(***************************************************************************)
(* Clause extraction.                                                      *)
(***************************************************************************)
\* text.split('.'): the pieces between the full stops, empty pieces included
Split(text) ==
  LET dots == { i \in 1..Len(text) : SubSeq(text, i, i) = "." }
      n    == Cardinality(dots)
      DotAt(k) == IF k = 0 THEN 0
                  ELSE IF k = n + 1 THEN Len(text) + 1
                  ELSE CHOOSE p \in dots : Cardinality({ q \in dots : q < p }) = k - 1
  IN  [k \in 1..(n + 1) |->
         IF DotAt(k - 1) + 1 > DotAt(k) - 1 THEN ""
         ELSE SubSeq(text, DotAt(k - 1) + 1, DotAt(k) - 1)]

\* re.search(pattern, sentence, re.IGNORECASE) finds a match
Search(items, sentence) ==
  LET sentence_lower == Lower(sentence)
  IN  \E p \in 0..Len(sentence) : MatchEnd(items, sentence_lower, p) # -1

\* SentenceAppends without the break: one append for every matching pattern
SentenceAppendsEveryPattern(patterns, sentence) ==
  LET hits == { i \in 1..Len(patterns) : Search(patterns[i], sentence) }
  IN  [j \in 1..Cardinality(hits) |-> Strip(sentence)]

\* the pattern loop of extract_specific_clauses for one sentence: what it
\* appends to clause_text, stopping at the first pattern that matches
SentenceAppends(patterns, sentence) ==
  LET hits == { i \in 1..Len(patterns) : Search(patterns[i], sentence) }
  IN  IF hits = {} THEN <<>> ELSE <<Strip(sentence)>>

\* the sentence loop of extract_specific_clauses, from the i-th sentence on
RECURSIVE ClauseText(_, _, _)
ClauseText(patterns, sentences, i) ==
  IF i > Len(sentences) THEN <<>>
  ELSE SentenceAppends(patterns, sentences[i]) \o ClauseText(patterns, sentences, i + 1)

\* the entry extract_specific_clauses stores for one requested clause type
ExtractEntry(patterns_catalog, text, clause_type) ==
  IF clause_type \in DOMAIN patterns_catalog
  THEN LET clause_text == ClauseText(patterns_catalog[clause_type].patterns, Split(text), 1)
       IN  [found         |-> Len(clause_text) > 0,
            text_segments |-> Prefix(clause_text, 3),
            count         |-> Len(clause_text)]
  ELSE [found |-> FALSE, text_segments |-> <<>>, count |-> 0]

\* extract_specific_clauses leaving out the names that are not in the catalog
ExtractKnownOnly(patterns_catalog, text, clause_types) ==
  [clause_type \in { clause_types[i] : i \in DOMAIN clause_types } \cap DOMAIN patterns_catalog |->
     ExtractEntry(patterns_catalog, text, clause_type)]

\* ComplianceChecker.extract_specific_clauses
extract_specific_clauses(patterns_catalog, text, clause_types) ==
  [clause_type \in { clause_types[i] : i \in DOMAIN clause_types } |->
     ExtractEntry(patterns_catalog, text, clause_type)]

(***************************************************************************)
(* AIProcessor: the risk level of the general analysis.                    *)
(***************************************************************************)
\* the risk_keywords list of AIProcessor._assess_risk_level
RiskKeywords ==
  <<"penalty", "damages", "liability", "breach", "default",
    "termination", "indemnify", "sue", "court", "arbitration">>

\* _assess_risk_level returning HIGH from a count of 10 on
AssessRiskLevelFromTen(text) ==
  LET risk_count == Len(TermsIn(RiskKeywords, Lower(text)))
  IN  IF risk_count >= 10 THEN "HIGH - Multiple risk-related terms detected"
      ELSE IF risk_count > 5 THEN "MEDIUM - Some risk-related terms found"
      ELSE "LOW - Few risk indicators detected"

\* AIProcessor._assess_risk_level
_assess_risk_level(text) ==
  LET risk_count == Len(TermsIn(RiskKeywords, Lower(text)))
  IN  IF risk_count > 10 THEN "HIGH - Multiple risk-related terms detected"
      ELSE IF risk_count > 5 THEN "MEDIUM - Some risk-related terms found"
      ELSE "LOW - Few risk indicators detected"

(***************************************************************************)
(* Inputs: documents, requested regulation lists, rule dictionaries.       *)
(***************************************************************************)
\* the sentences documents are made of
Sentences ==
  << "Data Controller and data processor: data protection, personal data, data subject rights, consent.",
     "Unlimited data retention and no data subject rights; profiling of sensitive data.",
     "Consumer rights: opt-out of the sale of personal information; PHI disclosure.",
     "The vendor bears unlimited liability, every cost and a personal guarantee.",
     "Liquidated damages, automatic renewal, non-compete, exclusive dealing and a penalty clause.",
     "Indemnification, force majeure and governing law by mutual agreement.",
     "On breach a party may terminate; termination expires or we end this agreement.",
     "Payment terms: invoice of $1,250.00 on reasonable notice in good faith.",
     "Fee of $5.00 per invoice. Compensation due.",
     "Consent to data protection.",
     "Personal data.",
     "In default, indemnify or sue in court; arbitration follows.",
     "Penalty, damages and liability on breach or termination." >>

\* the sentences of the documents handed to every analysis
AnalysisSentences == 1..8

\* the sentences that hold terms of the compliance rules, and one that holds none
ComplianceSentences == 1..4

\* the document made of the sentences numbered by picks, separated by blanks
RECURSIVE Document(_)
Document(picks) ==
  IF picks = <<>> THEN ""
  ELSE IF Len(picks) = 1 THEN Sentences[picks[1]]
  ELSE Sentences[picks[1]] \o " " \o Document(Tail(picks))

\* all sequences over S of length at most n
SeqsUpTo(S, n) == UNION { [1..k -> S] : k \in 0..n }

\* the documents of at most MaxSentences sentences drawn from pool
Texts(pool) == { Document(picks) : picks \in SeqsUpTo(pool, MaxSentences) }

\* the names a caller may request: catalog names and one unknown name
RequestNames == {"GDPR", "CCPA", "PCI-DSS"}

RegulationLists == SeqsUpTo(RequestNames, MaxRegs)

\* the sentences that hold payment and termination clauses, and one that holds
\* neither
ExtractSentences == {4, 7, 9}

\* sentences that hold different required terms of one regulation, and one
\* that holds prohibited terms and risk indicators
SingleSentences == {2, 10, 11}

\* a sentence for each analysis: compliance terms, risk terms, clauses
CheckerSentences == {3, 4, 7}

\* sentences that hold from none to five of the risk keywords of AIProcessor
AssessSentences == {1, 4, 5, 6, 7, 12, 13}

\* the clause types a caller may request: catalog names and one unknown name
RequestTypes == {"payment", "termination", "unknown_type"}

ClauseTypeLists == SeqsUpTo(RequestTypes, MaxTypes)

\* rule dictionaries _check_single_regulation may be handed that are not in
\* the catalog: no required terms (key absent or list empty), a single
\* required term with heavy penalties, terms written in upper case
ExtraRules ==
  { [prohibited_terms |-> <<"unlimited data retention">>,
     risk_indicators |-> <<"profiling">>],
    [required_terms |-> <<>>,
     prohibited_terms |-> <<"unlimited liability", "no data subject rights">>,
     risk_indicators |-> <<"sensitive data", "phi disclosure">>],
    [required_terms |-> <<"consent">>,
     prohibited_terms |-> <<"profiling", "unlimited data retention", "sensitive data">>,
     risk_indicators |-> <<"data subject rights">>],
    [required_terms |-> <<"PHI", "Opt-Out", "Personal Guarantee">>,
     risk_indicators |-> <<"Consumer Rights">>] }

RuleInputs == { LoadComplianceRules[r] : r \in DOMAIN LoadComplianceRules } \cup ExtraRules

(***************************************************************************)
(* The checker as a state machine: the module-level ComplianceChecker of   *)
(* main.py serves one call after another on the text extracted from the    *)
(* uploaded document.                                                      *)
(***************************************************************************)
Call(op, regulations, rules) == [op |-> op, regulations |-> regulations, rules |-> rules]

\* a call of extract_specific_clauses and its clause_types argument
CallExtract(clause_types) ==
  [op |-> "extract_specific_clauses", regulations |-> <<>>, rules |-> <<>>,
   clause_types |-> clause_types]

Idle == Call("idle", <<>>, <<>>)

NoResult == <<>>

\* the requests that may be in flight at the same time
Calls == 1..MaxCalls

\* a request that is not running: no locals
IdleFrame ==
  [status |-> "idle", op |-> "", text |-> "", pc |-> 0, acc |-> <<>>,
   result |-> NoResult, lists |-> {}]

(***************************************************************************)
(* The upload endpoints of main.py: constants, exceptions, request inputs. *)
(***************************************************************************)
\* File size limit (10MB)
MAX_FILE_SIZE == 10 * 1024 * 1024

\* the extensions the three endpoints accept
allowed_extensions == {".pdf", ".doc", ".docx"}

\* Path(name).suffix of a file name without directories: from the last dot
\* on, unless the name has no dot or the dot is its first or last character
Suffix(name) ==
  LET dots == { i \in 1..Len(name) : SubSeq(name, i, i) = "." }
  IN  IF dots = {} THEN ""
      ELSE LET i == SetMax(dots)
           IN  IF i = 1 \/ i = Len(name) THEN "" ELSE SubSeq(name, i, Len(name))

\* no exception is propagating
NoException == [kind |-> "none", status_code |-> 0]

\* raise HTTPException(status_code=...)
HTTPException(status_code) == [kind |-> "HTTPException", status_code |-> status_code]

\* any exception that is not an HTTPException
OtherException == [kind |-> "Exception", status_code |-> 0]

\* file names a client may send; the empty name is a missing file name
Filenames ==
  {"", "contract.pdf", "SCAN.PDF", "memo.doc", "memo.docx", "notes.txt",
   "README", ".pdf"}

\* len(file_content): an empty upload, the largest accepted, the first rejected
ContentSizes == {0, MAX_FILE_SIZE, MAX_FILE_SIZE + 1}

\* the analysis_type form field of /analyze-document
AnalysisTypes == {"general", "compliance", "risk", "clauses"}

\* the regulations form field of /compliance-check: its default and another
FormRegulations == {<<"GDPR", "CCPA", "SOX">>, <<"PCI-DSS">>}

\* the clause_types form field of /extract-clauses: its default and another
FormClauseTypes ==
  {<<"liability", "termination", "payment", "confidentiality">>, <<"payment">>}

\* the endpoint and the form fields of a request
Routes ==
  [endpoint : {"/analyze-document"}, analysis_type : AnalysisTypes,
   regulations : {<<>>}, clause_types : {<<>>}]
  \cup [endpoint : {"/compliance-check"}, analysis_type : {""},
        regulations : FormRegulations, clause_types : {<<>>}]
  \cup [endpoint : {"/extract-clauses"}, analysis_type : {""},
        regulations : {<<>>}, clause_types : FormClauseTypes]

\* the locals of an endpoint coroutine; temp_file_path 0 is unbound, status_code
\* 0 is no response yet
Request(route, filename, size) ==
  [endpoint |-> route.endpoint, analysis_type |-> route.analysis_type,
   regulations |-> route.regulations, clause_types |-> route.clause_types,
   filename |-> filename, size |-> size, file_extension |-> "",
   temp_file_path |-> 0, pending |-> NoException, status_code |-> 0,
   pc |-> "validate"]

\* no request is being served
IdleRequest ==
  [Request([endpoint |-> "", analysis_type |-> "", regulations |-> <<>>,
            clause_types |-> <<>>], "", 0) EXCEPT !.pc = "idle"]

\* the sentence uploaded documents are made of
UploadSentences == {3}

\* what extract_text may return: a document, or white space only
UploadTexts == Texts(UploadSentences) \cup {" "}

\* ComplianceChecker.__init__, and the text of the request being served, a
\* document over the sentences of pool
InitOver(pool) ==
  /\ compliance_rules = LoadComplianceRules
  /\ clause_patterns = LoadClausePatterns
  /\ extracted_text \in Texts(pool)
  /\ call = Idle
  /\ result = NoResult
  /\ inflight = [c \in Calls |-> IdleFrame]
  /\ request = IdleRequest
  /\ temp_files = {}

Init == InitOver(AnalysisSentences)

\* CheckCompliance taking the required terms it finds out of the catalog
CheckComplianceConsumingCatalog ==
  /\ call.op = "idle"
  /\ call' = Call("check_compliance", <<>>, <<>>)
  /\ result' = check_compliance(compliance_rules, extracted_text)
  /\ compliance_rules' =
       [r \in DOMAIN compliance_rules |->
          [compliance_rules[r] EXCEPT
             !.required_terms = TermsNotIn(@, Lower(extracted_text))]]
  /\ UNCHANGED <<clause_patterns, extracted_text, inflight, request, temp_files>>

CheckCompliance ==
  /\ call.op = "idle"
  /\ call' = Call("check_compliance", <<>>, <<>>)
  /\ result' = check_compliance(compliance_rules, extracted_text)
  /\ UNCHANGED <<compliance_rules, clause_patterns, extracted_text, inflight, request, temp_files>>

CheckSpecificCompliance ==
  /\ call.op = "idle"
  /\ \E regulations \in RegulationLists :
       /\ call' = Call("check_specific_compliance", regulations, <<>>)
       /\ result' = check_specific_compliance(compliance_rules, extracted_text, regulations)
  /\ UNCHANGED <<compliance_rules, clause_patterns, extracted_text, inflight, request, temp_files>>

CheckSingleRegulation ==
  /\ call.op = "idle"
  /\ \E rules \in RuleInputs :
       /\ call' = Call("_check_single_regulation", <<>>, rules)
       /\ result' = _check_single_regulation(extracted_text, "R", rules)
  /\ UNCHANGED <<compliance_rules, clause_patterns, extracted_text, inflight, request, temp_files>>

CalculateRiskScore ==
  /\ call.op = "idle"
  /\ call' = Call("calculate_risk_score", <<>>, <<>>)
  /\ result' = calculate_risk_score(extracted_text)
  /\ UNCHANGED <<compliance_rules, clause_patterns, extracted_text, inflight, request, temp_files>>

DetectClauses ==
  /\ call.op = "idle"
  /\ call' = Call("detect_clauses", <<>>, <<>>)
  /\ result' = detect_clauses(clause_patterns, extracted_text)
  /\ UNCHANGED <<compliance_rules, clause_patterns, extracted_text, inflight, request, temp_files>>

ExtractSpecificClauses ==
  /\ call.op = "idle"
  /\ \E clause_types \in ClauseTypeLists :
       /\ call' = CallExtract(clause_types)
       /\ result' = extract_specific_clauses(clause_patterns, extracted_text, clause_types)
  /\ UNCHANGED <<compliance_rules, clause_patterns, extracted_text, inflight, request, temp_files>>

\* the caller takes the result; the checker is ready for the next call
Return ==
  /\ call.op # "idle"
  /\ call' = Idle
  /\ result' = NoResult
  /\ UNCHANGED <<compliance_rules, clause_patterns, extracted_text, inflight, request, temp_files>>

Next ==
  \/ CheckCompliance
  \/ CheckSpecificCompliance
  \/ CheckSingleRegulation
  \/ CalculateRiskScore
  \/ DetectClauses
  \/ ExtractSpecificClauses
  \/ Return

Spec == Init /\ [][Next]_vars

\* the compliance scorer alone
NextCompliance ==
  \/ CheckCompliance
  \/ CheckSpecificCompliance
  \/ CheckSingleRegulation
  \/ Return

InitCompliance == InitOver(ComplianceSentences)

SpecCompliance == InitCompliance /\ [][NextCompliance]_vars

\* the risk scorer alone
NextRisk ==
  \/ CalculateRiskScore
  \/ Return

SpecRisk == Init /\ [][NextRisk]_vars

\* the clause detector alone
NextClauses ==
  \/ DetectClauses
  \/ Return

SpecClauses == Init /\ [][NextClauses]_vars

\* the clause extractor alone
NextExtract ==
  \/ ExtractSpecificClauses
  \/ Return

InitExtract == InitOver(ExtractSentences)

SpecExtract == InitExtract /\ [][NextExtract]_vars

AssessRiskLevel ==
  /\ call.op = "idle"
  /\ call' = Call("_assess_risk_level", <<>>, <<>>)
  /\ result' = _assess_risk_level(extracted_text)
  /\ UNCHANGED <<compliance_rules, clause_patterns, extracted_text, inflight, request, temp_files>>

\* the risk level of AIProcessor alone
NextAssess ==
  \/ AssessRiskLevel
  \/ Return

InitAssess == InitOver(AssessSentences)

SpecAssess == InitAssess /\ [][NextAssess]_vars

\* _check_single_regulation alone
NextSingle ==
  \/ CheckSingleRegulation
  \/ Return

InitSingle == InitOver(SingleSentences)

SpecSingle == InitSingle /\ [][NextSingle]_vars

\* between two requests the endpoint extracts the text of the next upload
NextRequest ==
  /\ call.op = "idle"
  /\ extracted_text' \in Texts(CheckerSentences)
  /\ UNCHANGED <<compliance_rules, clause_patterns, call, result, inflight, request, temp_files>>

\* every analysis on the shared checker, request after request
NextChecker ==
  \/ CheckCompliance
  \/ CheckSpecificCompliance
  \/ CalculateRiskScore
  \/ DetectClauses
  \/ ExtractSpecificClauses
  \/ NextRequest
  \/ Return

InitChecker == InitOver(CheckerSentences)

SpecChecker == InitChecker /\ [][NextChecker]_vars

(***************************************************************************)
(* Calls whose text argument is None.  The checker never tests the type of *)
(* text: a call fails where it first uses text as a string, with the       *)
(* exception Python raises there, and returns normally when it never does. *)
(***************************************************************************)
\* a call that ended with the exception of this name
RaisedError(name) == [raised |-> name]

\* check_compliance(None): text.lower() in _check_single_regulation raises
\* for the first regulation of the catalog
CheckComplianceOfNone(rules_catalog) ==
  IF DOMAIN rules_catalog # {}
  THEN RaisedError("AttributeError")
  ELSE FinishReport(EmptyReport)

\* check_specific_compliance(None, regulations): raises at the first name
\* that is in the catalog; with no such name the loop never touches text
CheckSpecificComplianceOfNone(rules_catalog, regulations) ==
  IF \E i \in DOMAIN regulations : regulations[i] \in DOMAIN rules_catalog
  THEN RaisedError("AttributeError")
  ELSE FinishReport(EmptyReport)

\* calculate_risk_score(None): text.lower() raises before the loop
CalculateRiskScoreOfNone == RaisedError("AttributeError")

\* detect_clauses(None): re.finditer raises for the first pattern
DetectClausesOfNone(patterns_catalog) ==
  IF DOMAIN patterns_catalog # {}
  THEN RaisedError("TypeError")
  ELSE <<>>

\* extract_specific_clauses(None, clause_types): text.split raises at the
\* first name that is in the catalog; the other names get the empty entry
ExtractSpecificClausesOfNone(patterns_catalog, clause_types) ==
  IF \E i \in DOMAIN clause_types : clause_types[i] \in DOMAIN patterns_catalog
  THEN RaisedError("AttributeError")
  ELSE [clause_type \in { clause_types[i] : i \in DOMAIN clause_types } |->
          [found |-> FALSE, text_segments |-> <<>>, count |-> 0]]

\* a call with None for text, its operation and its list of names
CallOfNone(op, names) ==
  [op |-> op, regulations |-> names, rules |-> <<>>, clause_types |-> names,
   text_is_none |-> TRUE]

CheckComplianceNone ==
  /\ call.op = "idle"
  /\ call' = CallOfNone("check_compliance", <<>>)
  /\ result' = CheckComplianceOfNone(compliance_rules)
  /\ UNCHANGED <<compliance_rules, clause_patterns, extracted_text, inflight, request, temp_files>>

CheckSpecificComplianceNone ==
  /\ call.op = "idle"
  /\ \E regulations \in RegulationLists :
       /\ call' = CallOfNone("check_specific_compliance", regulations)
       /\ result' = CheckSpecificComplianceOfNone(compliance_rules, regulations)
  /\ UNCHANGED <<compliance_rules, clause_patterns, extracted_text, inflight, request, temp_files>>

CalculateRiskScoreNone ==
  /\ call.op = "idle"
  /\ call' = CallOfNone("calculate_risk_score", <<>>)
  /\ result' = CalculateRiskScoreOfNone
  /\ UNCHANGED <<compliance_rules, clause_patterns, extracted_text, inflight, request, temp_files>>

DetectClausesNone ==
  /\ call.op = "idle"
  /\ call' = CallOfNone("detect_clauses", <<>>)
  /\ result' = DetectClausesOfNone(clause_patterns)
  /\ UNCHANGED <<compliance_rules, clause_patterns, extracted_text, inflight, request, temp_files>>

ExtractSpecificClausesNone ==
  /\ call.op = "idle"
  /\ \E clause_types \in ClauseTypeLists :
       /\ call' = CallOfNone("extract_specific_clauses", clause_types)
       /\ result' = ExtractSpecificClausesOfNone(clause_patterns, clause_types)
  /\ UNCHANGED <<compliance_rules, clause_patterns, extracted_text, inflight, request, temp_files>>

\* a caller that hands the checker None in place of the text it holds
NextNoText ==
  \/ CheckComplianceNone
  \/ CheckSpecificComplianceNone
  \/ CalculateRiskScoreNone
  \/ DetectClausesNone
  \/ ExtractSpecificClausesNone
  \/ Return

SpecNoText == InitChecker /\ [][NextNoText]_vars

(***************************************************************************)
(* Requests in flight at the same time on the shared checker.  A request   *)
(* runs check_compliance or calculate_risk_score one loop iteration at a   *)
(* time; its text, loop position, accumulators and result are its own      *)
(* locals, the catalog is the checker's.  A list object is named by its    *)
(* owner (a request, or 0 for the checker), the name it is bound to when   *)
(* created and the regulation or bucket it is created for.                 *)
(***************************************************************************)
\* the sentences of the documents of concurrent requests
ConcurrentSentences == {3, 4}

ConcurrentTexts == { Document(<<i>>) : i \in ConcurrentSentences }

ListObject(owner, name, of) == [owner |-> owner, name |-> name, of |-> of]

\* the lists the catalog holds
CatalogLists ==
  { ListObject(0, name, regulation) :
      name \in {"required_terms", "prohibited_terms", "risk_indicators"},
      regulation \in DOMAIN LoadComplianceRules }

\* the lists one call of _check_single_regulation creates and returns
ListsOfRegulation(c, regulation) ==
  { ListObject(c, name, regulation) :
      name \in {"found_required", "missing_required", "prohibited_found", "risk_factors"} }

\* the locals of check_compliance before its loop
BeginCompliance ==
  \E c \in Calls, text \in ConcurrentTexts :
    /\ inflight[c].status = "idle"
    /\ inflight' = [inflight EXCEPT ![c] =
         [status |-> "running", op |-> "check_compliance", text |-> text, pc |-> 1,
          acc |-> EmptyReport, result |-> NoResult,
          lists |-> { ListObject(c, "missing_requirements", ""),
                      ListObject(c, "risk_factors", "") }]]
    /\ UNCHANGED <<compliance_rules, clause_patterns, extracted_text, call, result, request, temp_files>>

\* StepRegulation with a _check_single_regulation that takes the required
\* terms it finds out of the catalog's list
StepRegulationConsumingCatalog ==
  \E c \in Calls :
    LET frame      == inflight[c]
        regulation == RegulationOrder[frame.pc]
    IN  /\ frame.status = "running"
        /\ frame.op = "check_compliance"
        /\ frame.pc <= Len(RegulationOrder)
        /\ inflight' = [inflight EXCEPT ![c] =
             [frame EXCEPT
                !.acc = EvaluateInto(frame.acc, frame.text, regulation,
                                     compliance_rules[regulation]),
                !.lists = @ \cup ListsOfRegulation(c, regulation),
                !.pc = @ + 1]]
        /\ compliance_rules' =
             [compliance_rules EXCEPT
                ![regulation].required_terms = TermsNotIn(@, Lower(frame.text))]
        /\ UNCHANGED <<clause_patterns, extracted_text, call, result, request, temp_files>>

\* one iteration of the loop of check_compliance: the next regulation of the
\* catalog is evaluated into the request's accumulators
StepRegulation ==
  \E c \in Calls :
    LET frame      == inflight[c]
        regulation == RegulationOrder[frame.pc]
    IN  /\ frame.status = "running"
        /\ frame.op = "check_compliance"
        /\ frame.pc <= Len(RegulationOrder)
        /\ inflight' = [inflight EXCEPT ![c] =
             [frame EXCEPT
                !.acc = EvaluateInto(frame.acc, frame.text, regulation,
                                     compliance_rules[regulation]),
                !.lists = @ \cup ListsOfRegulation(c, regulation),
                !.pc = @ + 1]]
        /\ UNCHANGED <<compliance_rules, clause_patterns, extracted_text, call, result, request, temp_files>>

\* the tail of check_compliance: overall score, recommendations, return
FinishCompliance ==
  \E c \in Calls :
    LET frame == inflight[c]
    IN  /\ frame.status = "running"
        /\ frame.op = "check_compliance"
        /\ frame.pc > Len(RegulationOrder)
        /\ inflight' = [inflight EXCEPT ![c] =
             [frame EXCEPT
                !.status = "returned",
                !.result = FinishReport(frame.acc),
                !.lists = @ \cup {ListObject(c, "recommendations", "")}]]
        /\ UNCHANGED <<compliance_rules, clause_patterns, extracted_text, call, result, request, temp_files>>

\* the locals of calculate_risk_score before its loop
EmptyRiskAnalysis ==
  [total_risk_score |-> 0,
   factors_found    |-> [high_risk |-> <<>>, medium_risk |-> <<>>, low_risk |-> <<>>]]

BeginRisk ==
  \E c \in Calls, text \in ConcurrentTexts :
    /\ inflight[c].status = "idle"
    /\ inflight' = [inflight EXCEPT ![c] =
         [status |-> "running", op |-> "calculate_risk_score", text |-> text, pc |-> 1,
          acc |-> EmptyRiskAnalysis, result |-> NoResult,
          lists |-> { ListObject(c, "factors_found", level) :
                        level \in {"high_risk", "medium_risk", "low_risk"} }]]
    /\ UNCHANGED <<compliance_rules, clause_patterns, extracted_text, call, result, request, temp_files>>

\* one iteration of the loop of calculate_risk_score: the next bucket is
\* scanned and its found_terms list replaces the bucket's empty list
StepBucket ==
  \E c \in Calls :
    LET frame  == inflight[c]
        bucket == RiskFactorTable[frame.pc]
        scan   == BucketScan(bucket, Lower(frame.text))
    IN  /\ frame.status = "running"
        /\ frame.op = "calculate_risk_score"
        /\ frame.pc <= Len(RiskFactorTable)
        /\ inflight' = [inflight EXCEPT ![c] =
             [frame EXCEPT
                !.acc = [total_risk_score |-> @.total_risk_score + scan.added,
                         factors_found    |->
                           [@.factors_found EXCEPT ![bucket.risk_level] = scan.found_terms]],
                !.lists = (@ \ {ListObject(c, "factors_found", bucket.risk_level)})
                          \cup {ListObject(c, "found_terms", bucket.risk_level)},
                !.pc = @ + 1]]
        /\ UNCHANGED <<compliance_rules, clause_patterns, extracted_text, call, result, request, temp_files>>

\* the tail of calculate_risk_score: level, scaled score, recommendations
FinishRiskAnalysis(acc) ==
  LET risk_analysis ==
        [overall_score |-> ScaleRiskScore(acc.total_risk_score),
         risk_level    |-> RiskLevelOf(acc.total_risk_score),
         factors_found |-> acc.factors_found]
  IN  [overall_score   |-> risk_analysis.overall_score,
       risk_level      |-> risk_analysis.risk_level,
       factors_found   |-> risk_analysis.factors_found,
       recommendations |-> _generate_risk_recommendations(risk_analysis)]

FinishRisk ==
  \E c \in Calls :
    LET frame == inflight[c]
    IN  /\ frame.status = "running"
        /\ frame.op = "calculate_risk_score"
        /\ frame.pc > Len(RiskFactorTable)
        /\ inflight' = [inflight EXCEPT ![c] =
             [frame EXCEPT
                !.status = "returned",
                !.result = FinishRiskAnalysis(frame.acc),
                !.lists = @ \cup {ListObject(c, "recommendations", "")}]]
        /\ UNCHANGED <<compliance_rules, clause_patterns, extracted_text, call, result, request, temp_files>>

\* the endpoint sends the response; the request is over
Deliver ==
  \E c \in Calls :
    /\ inflight[c].status = "returned"
    /\ inflight' = [inflight EXCEPT ![c] = IdleFrame]
    /\ UNCHANGED <<compliance_rules, clause_patterns, extracted_text, call, result, request, temp_files>>

NextConcurrent ==
  \/ BeginCompliance
  \/ StepRegulation
  \/ FinishCompliance
  \/ BeginRisk
  \/ StepBucket
  \/ FinishRisk
  \/ Deliver

\* the checker after construction, no request in flight
InitConcurrent ==
  /\ compliance_rules = LoadComplianceRules
  /\ clause_patterns = LoadClausePatterns
  /\ extracted_text = ""
  /\ call = Idle
  /\ result = NoResult
  /\ inflight = [c \in Calls |-> IdleFrame]
  /\ request = IdleRequest
  /\ temp_files = {}

SpecConcurrent == InitConcurrent /\ [][NextConcurrent]_vars

(***************************************************************************)
(* The upload endpoints of main.py, statement by statement.  An exception  *)
(* raised in a try block is held in request.pending until a handler takes  *)
(* it; the response is the status code the client receives.                *)
(***************************************************************************)
\* the analysis an endpoint runs on the extracted text
Analysis(req, text) ==
  IF req.endpoint = "/compliance-check"
    THEN check_specific_compliance(compliance_rules, text, req.regulations)
  ELSE IF req.endpoint = "/extract-clauses"
    THEN extract_specific_clauses(clause_patterns, text, req.clause_types)
  ELSE IF req.analysis_type = "compliance" THEN check_compliance(compliance_rules, text)
  ELSE IF req.analysis_type = "risk" THEN calculate_risk_score(text)
  ELSE IF req.analysis_type = "clauses" THEN detect_clauses(clause_patterns, text)
  ELSE _assess_risk_level(text)

\* a client posts a file to one of the three endpoints
Receive ==
  /\ request.pc = "idle"
  /\ call.op = "idle"
  /\ \E route \in Routes, filename \in Filenames, size \in ContentSizes :
       request' = Request(route, filename, size)
  /\ UNCHANGED <<compliance_rules, clause_patterns, extracted_text, call, result,
                 inflight, temp_files>>

\* the file name, the extension and the size are checked in this order; each
\* failure raises HTTPException(400) inside the outer try
Validate ==
  /\ request.pc = "validate"
  /\ request' =
       IF request.filename = ""
         THEN [request EXCEPT !.pending = HTTPException(400), !.pc = "except"]
       ELSE LET file_extension == Lower(Suffix(request.filename))
            IN  IF file_extension \notin allowed_extensions
                  THEN [request EXCEPT !.file_extension = file_extension,
                                       !.pending = HTTPException(400),
                                       !.pc = "except"]
                ELSE IF request.size > MAX_FILE_SIZE
                  THEN [request EXCEPT !.file_extension = file_extension,
                                       !.pending = HTTPException(400),
                                       !.pc = "except"]
                ELSE [request EXCEPT !.file_extension = file_extension,
                                     !.pc = "save"]
  /\ UNCHANGED <<compliance_rules, clause_patterns, extracted_text, call, result,
                 inflight, temp_files>>

\* NamedTemporaryFile(delete=False): the content goes to a file of a fresh name
SaveTemp ==
  /\ request.pc = "save"
  /\ \E path \in (1..(Cardinality(temp_files) + 1)) \ temp_files :
       /\ temp_files' = temp_files \cup {path}
       /\ request' = [request EXCEPT !.temp_file_path = path, !.pc = "extract"]
  /\ UNCHANGED <<compliance_rules, clause_patterns, extracted_text, call, result,
                 inflight>>

\* document_parser.extract_text returns a text or raises; the PDF reader
\* raises on an empty text; /analyze-document alone rejects a blank text
ExtractText ==
  /\ request.pc = "extract"
  /\ \/ \E text \in UploadTexts :
          /\ request.file_extension = ".pdf" => text # ""
          /\ extracted_text' = text
          /\ request' =
               IF request.endpoint = "/analyze-document" /\ Strip(text) = ""
                 THEN [request EXCEPT !.pending = HTTPException(400), !.pc = "finally"]
                 ELSE [request EXCEPT !.pc = "analyze"]
     \/ /\ request' = [request EXCEPT !.pending = OtherException, !.pc = "finally"]
        /\ UNCHANGED extracted_text
  /\ UNCHANGED <<compliance_rules, clause_patterns, call, result, inflight,
                 temp_files>>

\* the analysis of the endpoint and the JSONResponse; any statement of the
\* try block may raise
Analyze ==
  /\ request.pc = "analyze"
  /\ \/ /\ result' = Analysis(request, extracted_text)
        /\ request' = [request EXCEPT !.pc = "finally"]
     \/ /\ request' = [request EXCEPT !.pending = OtherException, !.pc = "finally"]
        /\ UNCHANGED result
  /\ UNCHANGED <<compliance_rules, clause_patterns, extracted_text, call, inflight,
                 temp_files>>

\* the finally block that unlinks the file only when the try block returned
FinallyOnReturnOnly ==
  /\ request.pc = "finally"
  /\ temp_files' = IF request.pending = NoException
                     THEN temp_files \ {request.temp_file_path}
                     ELSE temp_files
  /\ request' =
       IF request.pending = NoException
         THEN [request EXCEPT !.status_code = 200, !.pc = "done"]
         ELSE [request EXCEPT !.pc = "except"]
  /\ UNCHANGED <<compliance_rules, clause_patterns, extracted_text, call, result,
                 inflight>>

\* finally: the temporary file is unlinked if it exists; then the response
\* is returned or the pending exception goes on to the outer handlers
Finally ==
  /\ request.pc = "finally"
  /\ temp_files' = temp_files \ {request.temp_file_path}
  /\ request' =
       IF request.pending = NoException
         THEN [request EXCEPT !.status_code = 200, !.pc = "done"]
         ELSE [request EXCEPT !.pc = "except"]
  /\ UNCHANGED <<compliance_rules, clause_patterns, extracted_text, call, result,
                 inflight>>

\* the handlers of the outer try: /analyze-document re-raises an
\* HTTPException before `except Exception`; the other two endpoints have
\* `except Exception` alone, which turns every exception into a 500
Except ==
  /\ request.pc = "except"
  /\ request' =
       IF request.endpoint = "/analyze-document" /\ request.pending.kind = "HTTPException"
         THEN [request EXCEPT !.status_code = request.pending.status_code,
                              !.pc = "done"]
         ELSE [request EXCEPT !.pending = HTTPException(500), !.status_code = 500,
                              !.pc = "done"]
  /\ UNCHANGED <<compliance_rules, clause_patterns, extracted_text, call, result,
                 inflight, temp_files>>

\* the response is sent; the endpoint is ready for the next request
Respond ==
  /\ request.pc = "done"
  /\ request' = IdleRequest
  /\ result' = NoResult
  /\ UNCHANGED <<compliance_rules, clause_patterns, extracted_text, call, inflight,
                 temp_files>>

NextEndpoints ==
  \/ Receive
  \/ Validate
  \/ SaveTemp
  \/ ExtractText
  \/ Analyze
  \/ Finally
  \/ Except
  \/ Respond

InitEndpoints == InitConcurrent

SpecEndpoints == InitEndpoints /\ [][NextEndpoints]_vars

(***************************************************************************)
(* Properties of the compliance scorer.                                    *)
(***************************************************************************)
IsComplianceReport == call.op \in {"check_compliance", "check_specific_compliance"}

\* the sum of the scores held in a regulations mapping, over the names in S
RECURSIVE SumOfScores(_, _)
SumOfScores(regulations, S) ==
  IF S = {} THEN RatInt(0)
  ELSE LET r == CHOOSE x \in S : TRUE
       IN  RatAdd(regulations[r].score, SumOfScores(regulations, S \ {r}))

\* the arithmetic mean of the scores held in a regulations mapping, 0 if empty
MeanOfReported(regulations) ==
  IF DOMAIN regulations = {} THEN RatInt(0)
  ELSE RatDivInt(SumOfScores(regulations, DOMAIN regulations),
                 Cardinality(DOMAIN regulations))

\* how many entries of a term list occur in the text, case ignored
Occurring(terms, text) ==
  LET text_lower == Lower(text)
  IN  Cardinality({ i \in 1..Len(terms) : Contains(Lower(terms[i]), text_lower) })

InPercentRange(score) == RatLeq(RatInt(0), score) /\ RatLeq(score, RatInt(100))

\* C1: the overall_score of every compliance report is the arithmetic mean
\* of the scores of the RegulationResults in its 'regulations' mapping, or 0
\* when the mapping is empty.
C1_OverallIsMeanOfReported ==
  IsComplianceReport => result.overall_score = MeanOfReported(result.regulations)

\* C2: with at least one required term, the score of one regulation is
\* max(0, (found/total - 0.2*prohibited - 0.1*risk) * 100) over the counts of
\* required, prohibited and risk terms occurring in the text; all required
\* terms and no prohibited or risk term give exactly 100.
C2_ScoreFormula ==
  (call.op = "_check_single_regulation" /\ Get(call.rules, "required_terms") # <<>>) =>
    LET total == Len(Get(call.rules, "required_terms"))
        f == Occurring(Get(call.rules, "required_terms"), extracted_text)
        p == Occurring(Get(call.rules, "prohibited_terms"), extracted_text)
        r == Occurring(Get(call.rules, "risk_indicators"), extracted_text)
        raw == Rat((10 * f - 2 * p * total - r * total) * 100, 10 * total)
    IN  /\ result.score = (IF raw.n < 0 THEN RatInt(0) ELSE raw)
        /\ (f = total /\ p = 0 /\ r = 0) => result.score = RatInt(100)

\* every required term found, scored below 100 by the penalties alone
C2_Witness ==
  /\ call.op = "_check_single_regulation"
  /\ Len(result.found_requirements) = 6
  /\ result.missing_requirements = <<>>
  /\ Len(result.prohibited_found) = 2
  /\ Len(result.risk_factors) = 2
  /\ result.score = RatInt(40)

\* C3: a regulation whose required-term list is empty scores 100, whatever
\* prohibited terms or risk indicators occur in the text.
C3_NoRequiredScores100 ==
  (call.op = "_check_single_regulation" /\ Get(call.rules, "required_terms") = <<>>) =>
    result.score = RatInt(100)

\* no required terms, and both a prohibited term and a risk indicator found
C3_Witness ==
  /\ call.op = "_check_single_regulation"
  /\ Get(call.rules, "required_terms") = <<>>
  /\ result.prohibited_found # <<>>
  /\ result.risk_factors # <<>>
  /\ result.score = RatInt(100)

\* C4: the overall_score of a compliance report and the score of every
\* RegulationResult in it lie in [0, 100].
C4_ScoresInRange ==
  IsComplianceReport =>
    /\ InPercentRange(result.overall_score)
    /\ \A r \in DOMAIN result.regulations : InPercentRange(result.regulations[r].score)

\* a report holding a regulation whose penalties exceed its compliance ratio
C4_Witness ==
  /\ IsComplianceReport
  /\ \E r \in DOMAIN result.regulations :
       LET rr == result.regulations[r]
       IN  /\ Len(rr.found_requirements) * 10
                < (2 * Len(rr.prohibited_found) + Len(rr.risk_factors))
                  * (Len(rr.found_requirements) + Len(rr.missing_requirements))
           /\ rr.score = RatInt(0)

\* C10: the keys of the report of check_specific_compliance are the requested
\* names that are in the catalog, and the report is the one the same request
\* without its unknown names gets.
C10_UnknownNamesSkipped ==
  call.op = "check_specific_compliance" =>
    LET known == SelectSeq(call.regulations, LAMBDA r : r \in DOMAIN compliance_rules)
    IN  /\ DOMAIN result.regulations
             = { call.regulations[i] : i \in 1..Len(call.regulations) }
               \cap DOMAIN compliance_rules
        /\ result = check_specific_compliance(compliance_rules, extracted_text, known)

\* a request naming an unknown regulation between two known ones
C10_Witness ==
  /\ call.op = "check_specific_compliance"
  /\ call.regulations = <<"GDPR", "PCI-DSS", "CCPA">>
  /\ DOMAIN result.regulations = {"GDPR", "CCPA"}
  /\ RatLt(RatInt(0), result.overall_score)

(***************************************************************************)
(* Properties of the risk scorer.                                          *)
(***************************************************************************)
\* the terms of risk bucket b occurring in the text, as a set
RiskTermsFound(b, text) ==
  LET text_lower == Lower(text)
  IN  { t \in { RiskFactorTable[b].terms[i] : i \in 1..Len(RiskFactorTable[b].terms) } :
          Contains(t, text_lower) }

\* 3 per matched high-risk term, 2 per medium, 1 per low
WeightedHits(text) ==
  3 * Cardinality(RiskTermsFound(1, text))
  + 2 * Cardinality(RiskTermsFound(2, text))
  + 1 * Cardinality(RiskTermsFound(3, text))

\* C5: overall_score = min(100, total*5) for the weighted total of matched
\* terms; HIGH iff total >= 15, MEDIUM iff 8 <= total < 15, LOW iff total < 8;
\* 'unlimited liability' and 'personal guarantee' alone give 6, LOW, 30.
C5_RiskScoreAndLevel ==
  call.op = "calculate_risk_score" =>
    LET total == WeightedHits(extracted_text)
    IN  /\ result.overall_score = (IF total * 5 > 100 THEN 100 ELSE total * 5)
        /\ (result.risk_level = "HIGH") <=> (total >= 15)
        /\ (result.risk_level = "MEDIUM") <=> (8 <= total /\ total < 15)
        /\ (result.risk_level = "LOW") <=> (total < 8)
        /\ (/\ RiskTermsFound(1, extracted_text) = {"unlimited liability", "personal guarantee"}
            /\ RiskTermsFound(2, extracted_text) = {}
            /\ RiskTermsFound(3, extracted_text) = {})
           => (total = 6 /\ result.risk_level = "LOW" /\ result.overall_score = 30)

\* the text matching only 'unlimited liability' and 'personal guarantee'
C5_Witness ==
  /\ call.op = "calculate_risk_score"
  /\ result.factors_found.high_risk = <<"unlimited liability", "personal guarantee">>
  /\ result.factors_found.medium_risk = <<>>
  /\ result.factors_found.low_risk = <<>>
  /\ result.risk_level = "LOW"
  /\ result.overall_score = 30

\* C6 as stated: a weighted total of 11 or more gives risk_level HIGH.
C6_ElevenIsHigh ==
  (call.op = "calculate_risk_score" /\ WeightedHits(extracted_text) >= 11) =>
    result.risk_level = "HIGH"

\* C6 amended: a weighted total of 15 or more gives risk_level HIGH.
C6_FifteenIsHigh ==
  (call.op = "calculate_risk_score" /\ WeightedHits(extracted_text) >= 15) =>
    result.risk_level = "HIGH"

\* a text whose weighted total is exactly 15
C6_Witness ==
  /\ call.op = "calculate_risk_score"
  /\ WeightedHits(extracted_text) = 15
  /\ result.risk_level = "HIGH"
  /\ result.overall_score = 75

(***************************************************************************)
(* Properties of the clause detector.                                      *)
(***************************************************************************)
\* the total number of regex matches of a clause type's patterns in the text
TotalMatches(clause_type, text) ==
  Len(CollectMatches(clause_patterns[clause_type].patterns, text, 1))

\* the catalog keywords of a clause type that occur in the text, as a set
KeywordsPresent(clause_type, text) ==
  LET keywords   == clause_patterns[clause_type].keywords
      text_lower == Lower(text)
  IN  { kw \in { keywords[i] : i \in 1..Len(keywords) } : Contains(Lower(kw), text_lower) }

\* some pattern of the clause type matches at some offset of the text
SomePatternMatches(clause_type, text) ==
  LET patterns   == clause_patterns[clause_type].patterns
      text_lower == Lower(text)
  IN  \E i \in 1..Len(patterns) : \E pos \in 0..(Len(text) - 1) :
        MatchEnd(patterns[i], text_lower, pos) # -1

IntMin(a, b) == IF a <= b THEN a ELSE b

\* C7: the confidence of a clause type found is
\* min(1.0, min(matchCount*0.4, 1.0) + min(keywordCount*0.2, 0.6)) over the
\* total number of matches and the number of keywords present, and every
\* confidence lies in [0, 1].
C7_ConfidenceFormula ==
  call.op = "detect_clauses" =>
    \A ct \in DOMAIN result :
      /\ result[ct].found =>
           LET matchCount   == TotalMatches(ct, extracted_text)
               keywordCount == Cardinality(KeywordsPresent(ct, extracted_text))
               tenths == IntMin(10, IntMin(matchCount * 4, 10) + IntMin(keywordCount * 2, 6))
           IN  result[ct].confidence = Rat(tenths, 10)
      /\ RatLeq(RatInt(0), result[ct].confidence)
      /\ RatLeq(result[ct].confidence, RatInt(1))

\* a clause type with more matches than are stored and one found by a single
\* keyword alone
C7_Witness ==
  /\ call.op = "detect_clauses"
  /\ \E ct \in DOMAIN result :
       /\ TotalMatches(ct, extracted_text) > 3
       /\ Cardinality(KeywordsPresent(ct, extracted_text)) >= 3
       /\ result[ct].confidence = RatInt(1)
  /\ \E ct \in DOMAIN result :
       /\ TotalMatches(ct, extracted_text) = 0
       /\ result[ct].confidence = Rat(2, 10)

\* C8: detect_clauses returns one result per clause type of the catalog;
\* found holds iff a pattern matches somewhere in the text or a keyword
\* occurs in it; a result not found has no matches, no keywords, confidence 0.
C8_FoundIffMatchOrKeyword ==
  call.op = "detect_clauses" =>
    /\ DOMAIN result = DOMAIN clause_patterns
    /\ \A ct \in DOMAIN result :
         /\ result[ct].found <=>
              (SomePatternMatches(ct, extracted_text) \/ KeywordsPresent(ct, extracted_text) # {})
         /\ ~result[ct].found =>
              /\ result[ct].matches = <<>>
              /\ result[ct].keywords_found = <<>>
              /\ result[ct].confidence = RatInt(0)

\* one clause type found by a keyword without any pattern match, one found by
\* a pattern match, one not found
C8_Witness ==
  /\ call.op = "detect_clauses"
  /\ \E ct \in DOMAIN result :
       result[ct].found /\ result[ct].matches = <<>> /\ result[ct].keywords_found # <<>>
  /\ \E ct \in DOMAIN result : result[ct].found /\ result[ct].matches # <<>>
  /\ \E ct \in DOMAIN result : ~result[ct].found

\* C9: the stored matches are the first min(3, total) matches in collection
\* order (patterns in catalog order, occurrences left to right), never more
\* than 3.
C9_FirstThreeMatches ==
  call.op = "detect_clauses" =>
    \A ct \in DOMAIN result :
      LET collected == CollectMatches(clause_patterns[ct].patterns, extracted_text, 1)
      IN  /\ Len(result[ct].matches) = IntMin(3, Len(collected))
          /\ Len(result[ct].matches) <= 3
          /\ \A i \in 1..Len(result[ct].matches) : result[ct].matches[i] = collected[i]

\* a clause type with more than 3 matches, of which 3 are stored
C9_Witness ==
  /\ call.op = "detect_clauses"
  /\ \E ct \in DOMAIN result :
       /\ TotalMatches(ct, extracted_text) > 3
       /\ Len(result[ct].matches) = 3

(***************************************************************************)
(* Properties of the clause extractor.                                     *)
(***************************************************************************)
\* the names in a requested list
NamesOf(list) == { list[i] : i \in DOMAIN list }

\* C11: extract_specific_clauses returns an entry for each requested name and
\* for no other; a requested name that is not in the clause catalog maps to
\* exactly {found: false, text_segments: [], count: 0}
C11_UnknownTypeEmptyEntry ==
  call.op = "extract_specific_clauses" =>
    /\ DOMAIN result = NamesOf(call.clause_types)
    /\ \A name \in NamesOf(call.clause_types) \ DOMAIN clause_patterns :
         result[name] = [found |-> FALSE, text_segments |-> <<>>, count |-> 0]

\* a request naming an unknown type next to a type the document holds
C11_Witness ==
  /\ call.op = "extract_specific_clauses"
  /\ call.clause_types = <<"unknown_type", "payment">>
  /\ result["payment"].found
  /\ ~result["unknown_type"].found
  /\ result["unknown_type"].count = 0

\* the offsets at which a segment of the split on '.' starts: the start of
\* the text and the offset after every full stop
SegmentStarts(text) ==
  {1} \cup { i + 1 : i \in { j \in 1..Len(text) : SubSeq(text, j, j) = "." } }

\* the segment that starts at offset a: up to the next full stop or the end
SegmentAt(text, a) ==
  LET stops == { j \in a..Len(text) : SubSeq(text, j, j) = "." }
      b     == IF stops = {} THEN Len(text) ELSE SetMin(stops) - 1
  IN  IF b < a THEN "" ELSE SubSeq(text, a, b)

\* the starts of the segments in which at least one pattern of the clause
\* type matches
Qualifying(text, clause_type) ==
  LET patterns == LoadClausePatterns[clause_type].patterns
  IN  { a \in SegmentStarts(text) :
          \E i \in 1..Len(patterns) :
            LET segment == Lower(SegmentAt(text, a))
            IN  \E p \in 0..Len(segment) : MatchEnd(patterns[i], segment, p) # -1 }

\* C12: for a requested clause type of the catalog the text is split on '.',
\* a segment qualifies iff at least one pattern matches inside it and is
\* counted once, count is the number of qualifying segments, text_segments
\* is the first min(3, count) qualifying segments in text order, trimmed,
\* and found = (count > 0)
C12_SegmentsCountedOnce ==
  call.op = "extract_specific_clauses" =>
    \A name \in NamesOf(call.clause_types) \cap DOMAIN LoadClausePatterns :
      LET qualifying == Qualifying(extracted_text, name)
          entry      == result[name]
      IN  /\ entry.count = Cardinality(qualifying)
          /\ entry.found = (entry.count > 0)
          /\ Len(entry.text_segments) = IntMin(3, entry.count)
          /\ \A k \in 1..Len(entry.text_segments) :
               \E a \in qualifying :
                 /\ Cardinality({ b \in qualifying : b < a }) = k - 1
                 /\ entry.text_segments[k] = Strip(SegmentAt(extracted_text, a))

\* six segments hold payment patterns, the first of them two patterns: count
\* is 6 and the first three are reported
C12_Witness ==
  /\ call.op = "extract_specific_clauses"
  /\ "payment" \in NamesOf(call.clause_types)
  /\ result["payment"].count = 6
  /\ result["payment"].text_segments = <<"Fee of $5", "00 per invoice", "Compensation due">>

(***************************************************************************)
(* Properties of the reports and their recommendations.                    *)
(***************************************************************************)
\* C13: check_compliance(text) returns the same report as
\* check_specific_compliance(text, names) where names lists every catalog
\* regulation in catalog order
C13_AllEqualsSpecificOverCatalog ==
  call.op = "check_compliance" =>
    result = check_specific_compliance(LoadComplianceRules, extracted_text, RegulationOrder)

\* a report over all four regulations with distinct scores, missing
\* requirements and risk factors
C13_Witness ==
  /\ call.op = "check_compliance"
  /\ DOMAIN result.regulations = {"GDPR", "CCPA", "SOX", "HIPAA"}
  /\ result.regulations["GDPR"].score = RatInt(100)
  /\ result.regulations["CCPA"].score = RatInt(50)
  /\ result.overall_score = RatInt(40)
  /\ result.risk_factors = <<"sale of personal information", "phi disclosure">>

LowScoreNotice == "Document requires significant compliance improvements"

AddMissingPrefix == "Add missing compliance requirements: "

RiskReviewNotice == "Review and address identified risk factors"

GoodComplianceNotice == "Document shows good compliance. Consider periodic review."

StartsWith(str, prefix) ==
  Len(str) >= Len(prefix) /\ SubSeq(str, 1, Len(prefix)) = prefix

\* C14: the recommendations of a compliance report are, in this order, the
\* '<70' notice iff overall_score < 70, the 'Add missing compliance
\* requirements' line iff missing_requirements is non-empty, the risk-review
\* notice iff risk_factors is non-empty, and the 'good compliance' notice iff
\* none of the three was triggered; the list is never empty and the 'good
\* compliance' notice never stands with another line
C14_RecommendationsByTrigger ==
  IsComplianceReport =>
    LET recs == result.recommendations
        k1 == IF RatLt(result.overall_score, RatInt(70)) THEN 1 ELSE 0
        k2 == IF result.missing_requirements # <<>> THEN 1 ELSE 0
        k3 == IF result.risk_factors # <<>> THEN 1 ELSE 0
    IN  /\ recs # <<>>
        /\ IF k1 + k2 + k3 = 0
           THEN recs = <<GoodComplianceNotice>>
           ELSE /\ Len(recs) = k1 + k2 + k3
                /\ k1 = 1 => recs[1] = LowScoreNotice
                /\ k2 = 1 => StartsWith(recs[k1 + 1], AddMissingPrefix)
                /\ k3 = 1 => recs[k1 + k2 + 1] = RiskReviewNotice
                /\ \A i \in DOMAIN recs : recs[i] # GoodComplianceNotice

\* a report of score 75 with missing requirements and risk factors: two
\* lines, no '<70' notice
C14_Witness ==
  /\ IsComplianceReport
  /\ result.overall_score = RatInt(75)
  /\ Len(result.recommendations) = 2
  /\ StartsWith(result.recommendations[1], AddMissingPrefix)
  /\ result.recommendations[2] = RiskReviewNotice

\* the names of a request that are catalog regulations, in request order
EvaluatedNames ==
  IF call.op = "check_compliance" THEN RegulationOrder
  ELSE SelectSeq(call.regulations, LAMBDA name : name \in DOMAIN LoadComplianceRules)

\* the required terms of the named regulations that the text lacks, name
\* after name, each regulation's terms in catalog order
RECURSIVE MissingOver(_, _)
MissingOver(names, text_lower) ==
  IF names = <<>> THEN <<>>
  ELSE SelectSeq(LoadComplianceRules[Head(names)].required_terms,
                 LAMBDA term : ~Contains(term, text_lower))
       \o MissingOver(Tail(names), text_lower)

\* C15: when missing_requirements is non-empty the 'Add missing compliance
\* requirements' line lists exactly the first min(3, n) entries of the
\* aggregated missing_requirements, which holds the missing terms in
\* evaluation order, each regulation's in catalog order, without
\* deduplication
C15_FirstThreeMissingListed ==
  (IsComplianceReport /\ result.missing_requirements # <<>>) =>
    LET missing == result.missing_requirements
        listed  == IF Len(missing) = 1 THEN missing[1]
                   ELSE IF Len(missing) = 2 THEN missing[1] \o ", " \o missing[2]
                   ELSE missing[1] \o ", " \o missing[2] \o ", " \o missing[3]
    IN  /\ missing = MissingOver(EvaluatedNames, Lower(extracted_text))
        /\ \E i \in DOMAIN result.recommendations :
             result.recommendations[i] = AddMissingPrefix \o listed

\* a regulation requested twice: its two missing terms are collected twice
\* and the line repeats the first of them
C15_Witness ==
  /\ call.op = "check_specific_compliance"
  /\ call.regulations = <<"CCPA", "CCPA">>
  /\ Len(result.missing_requirements) = 4
  /\ result.recommendations[2] =
       "Add missing compliance requirements: california consumer privacy act, data deletion, california consumer privacy act"

\* C16: the risk recommendations are the two canned lines of the final level
\* (HIGH, MEDIUM or LOW) followed by 'Pay special attention to high-risk
\* clauses identified' iff factors_found.high_risk is non-empty
C16_RiskRecommendationsByLevel ==
  call.op = "calculate_risk_score" =>
    LET canned ==
          CASE result.risk_level = "HIGH" ->
                 <<"High-risk document requires legal review before execution",
                   "Consider negotiating terms to reduce liability exposure">>
            [] result.risk_level = "MEDIUM" ->
                 <<"Medium-risk document should be reviewed by legal counsel",
                   "Ensure adequate insurance coverage for identified risks">>
            [] result.risk_level = "LOW" ->
                 <<"Low-risk document with standard terms",
                   "Periodic review recommended for ongoing compliance">>
    IN  /\ SubSeq(result.recommendations, 1, 2) = canned
        /\ IF result.factors_found.high_risk # <<>>
           THEN /\ Len(result.recommendations) = 3
                /\ result.recommendations[3] = "Pay special attention to high-risk clauses identified"
           ELSE Len(result.recommendations) = 2

\* a LOW document that holds high-risk terms: the closing line follows the
\* two LOW lines
C16_Witness ==
  /\ call.op = "calculate_risk_score"
  /\ result.risk_level = "LOW"
  /\ result.factors_found.high_risk # <<>>
  /\ Len(result.recommendations) = 3

(***************************************************************************)
(* Relations between calls.                                                *)
(***************************************************************************)
\* C17: check_compliance, check_specific_compliance, calculate_risk_score and
\* detect_clauses return, after any sequence of earlier calls on the checker,
\* what they return on a freshly constructed checker for the same input: no
\* call changes compliance_rules or clause_patterns, so a call repeated with
\* identical input yields identical output
C17_SameInputSameOutput ==
  /\ compliance_rules = LoadComplianceRules
  /\ clause_patterns = LoadClausePatterns
  /\ call.op = "check_compliance" =>
       result = check_compliance(LoadComplianceRules, extracted_text)
  /\ call.op = "check_specific_compliance" =>
       result = check_specific_compliance(LoadComplianceRules, extracted_text, call.regulations)
  /\ call.op = "calculate_risk_score" =>
       result = calculate_risk_score(extracted_text)
  /\ call.op = "detect_clauses" =>
       result = detect_clauses(LoadClausePatterns, extracted_text)

\* a request that found terms of two regulations and a risk indicator
C17_Witness ==
  /\ call.op = "check_specific_compliance"
  /\ call.regulations = <<"CCPA", "GDPR">>
  /\ result.regulations["CCPA"].found_requirements # <<>>
  /\ result.risk_factors # <<>>
  /\ compliance_rules = LoadComplianceRules

\* the required terms found, as a set
FoundSet(reg_result) ==
  { reg_result.found_requirements[i] : i \in DOMAIN reg_result.found_requirements }

\* the other text holds a required term this text lacks, and the same
\* prohibited terms and risk indicators
OneMoreTerm(here, other) ==
  /\ FoundSet(other) \ FoundSet(here) # {}
  /\ other.prohibited_found = here.prohibited_found
  /\ other.risk_factors = here.risk_factors

\* C19 as stated: for every pair of texts T, T' such that T' contains a
\* required term that T lacks and the found prohibited terms and risk
\* indicators are the same, the score for T' is at least the score for T
C19_NewTermNeverLowers ==
  call.op = "_check_single_regulation" =>
    \A other_text \in Texts(SingleSentences) :
      LET other == _check_single_regulation(other_text, "R", call.rules)
      IN  OneMoreTerm(result, other) => RatLeq(result.score, other.score)

\* C19 amended: for every pair of texts T, T' such that T' contains every
\* required term that T contains and one that T lacks, and the found
\* prohibited terms and risk indicators are the same, the score for T' is at
\* least the score for T
C19_AddedTermNeverLowers ==
  call.op = "_check_single_regulation" =>
    \A other_text \in Texts(SingleSentences) :
      LET other == _check_single_regulation(other_text, "R", call.rules)
      IN  (OneMoreTerm(result, other) /\ FoundSet(result) \subseteq FoundSet(other))
            => RatLeq(result.score, other.score)

\* a text with two of the six GDPR terms, and a text that holds them and a
\* third: one third of the terms against one half
C19_Witness ==
  /\ call.op = "_check_single_regulation"
  /\ call.rules = LoadComplianceRules["GDPR"]
  /\ extracted_text = "Consent to data protection."
  /\ result.score = Rat(100, 3)
  /\ LET other == _check_single_regulation("Consent to data protection. Personal data.",
                                            "R", call.rules)
     IN  /\ OneMoreTerm(result, other)
         /\ FoundSet(result) \subseteq FoundSet(other)
         /\ other.score = RatInt(50)

\* the upper-case letter of every lower-case letter
UpperOf ==
  [c \in CharsOf(LowerAlphabet) |->
     LET i == CHOOSE j \in 1..Len(LowerAlphabet) : SubSeq(LowerAlphabet, j, j) = c
     IN  SubSeq(UpperAlphabet, i, i)]

\* the string with every letter in upper case
RECURSIVE Upper(_)
Upper(s) ==
  IF Len(s) = 0 THEN ""
  ELSE IF Len(s) = 1 THEN (IF s \in DOMAIN UpperOf THEN UpperOf[s] ELSE s)
  ELSE LET h == Len(s) \div 2
       IN  Upper(SubSeq(s, 1, h)) \o Upper(SubSeq(s, h + 1, Len(s)))

\* C20: for two texts that differ only in letter case, here the text and its
\* upper-case form, check_compliance, check_specific_compliance and
\* calculate_risk_score return identical results, detect_clauses returns the
\* same found flag, keywords_found, confidence and number of matches for
\* every clause type, and extract_specific_clauses the same found flag and
\* count
C20_LetterCaseIgnored ==
  LET upper_text == Upper(extracted_text)
  IN  /\ call.op = "check_compliance" =>
           result = check_compliance(compliance_rules, upper_text)
      /\ call.op = "check_specific_compliance" =>
           result = check_specific_compliance(compliance_rules, upper_text, call.regulations)
      /\ call.op = "calculate_risk_score" =>
           result = calculate_risk_score(upper_text)
      /\ call.op = "detect_clauses" =>
           LET other == detect_clauses(clause_patterns, upper_text)
           IN  \A clause_type \in DOMAIN result :
                 /\ other[clause_type].found = result[clause_type].found
                 /\ other[clause_type].keywords_found = result[clause_type].keywords_found
                 /\ other[clause_type].confidence = result[clause_type].confidence
                 /\ Len(other[clause_type].matches) = Len(result[clause_type].matches)
      /\ call.op = "extract_specific_clauses" =>
           LET other == extract_specific_clauses(clause_patterns, upper_text, call.clause_types)
           IN  \A clause_type \in DOMAIN result :
                 /\ other[clause_type].found = result[clause_type].found
                 /\ other[clause_type].count = result[clause_type].count

\* a text in mixed case whose terms are found: the upper-case PHI of the
\* text against the lower-case phi of the HIPAA rules
C20_Witness ==
  /\ call.op = "check_compliance"
  /\ extracted_text # Upper(extracted_text)
  /\ extracted_text # Lower(extracted_text)
  /\ \E i \in DOMAIN result.regulations["HIPAA"].found_requirements :
       result.regulations["HIPAA"].found_requirements[i] = "phi"

\* C18: when several calls with different texts run interleaved on the
\* shared checker, each returns the result it returns when run alone; the
\* catalog is only read, and no list of a returned result is a list of the
\* catalog or of another request
C18_InterleavedCallsAsAlone ==
  /\ compliance_rules = LoadComplianceRules
  /\ clause_patterns = LoadClausePatterns
  /\ \A c \in Calls :
       inflight[c].status = "returned" =>
         /\ inflight[c].op = "check_compliance" =>
              inflight[c].result = check_compliance(LoadComplianceRules, inflight[c].text)
         /\ inflight[c].op = "calculate_risk_score" =>
              inflight[c].result = calculate_risk_score(inflight[c].text)
         /\ inflight[c].lists \cap CatalogLists = {}
         /\ \A d \in Calls \ {c} : inflight[c].lists \cap inflight[d].lists = {}

\* one request has returned its report while another, on a different text,
\* is in the middle of its loop over the catalog
C18_Witness ==
  /\ inflight[1].status = "running"
  /\ inflight[1].op = "check_compliance"
  /\ inflight[1].pc = 3
  /\ inflight[2].status = "returned"
  /\ inflight[2].op = "check_compliance"
  /\ inflight[2].text # inflight[1].text
  /\ inflight[2].result.risk_factors # <<>>

(***************************************************************************)
(* Shapes of the results.                                                  *)
(***************************************************************************)
\* sub is a duplicate-free subsequence of full, in the order of full
OrderedSelection(sub, full) ==
  LET chosen == { sub[i] : i \in DOMAIN sub }
  IN  /\ \A i, j \in DOMAIN sub : i # j => sub[i] # sub[j]
      /\ sub = SelectSeq(full, LAMBDA term : term \in chosen)

\* C21: every list of matched terms in a result (found_requirements,
\* missing_requirements, prohibited_found and risk_factors of a regulation,
\* factors_found of a risk bucket, keywords_found of a clause type) is a
\* duplicate-free subsequence of the corresponding catalog list, in catalog
\* order, wherever and however often the terms occur in the text
C21_TermListsInCatalogOrder ==
  /\ IsComplianceReport =>
       \A regulation \in DOMAIN result.regulations :
         LET reg_result == result.regulations[regulation]
             rules      == LoadComplianceRules[regulation]
         IN  /\ OrderedSelection(reg_result.found_requirements, rules.required_terms)
             /\ OrderedSelection(reg_result.missing_requirements, rules.required_terms)
             /\ OrderedSelection(reg_result.prohibited_found, rules.prohibited_terms)
             /\ OrderedSelection(reg_result.risk_factors, rules.risk_indicators)
  /\ call.op = "calculate_risk_score" =>
       \A i \in DOMAIN RiskFactorTable :
         OrderedSelection(result.factors_found[RiskFactorTable[i].risk_level],
                          RiskFactorTable[i].terms)
  /\ call.op = "detect_clauses" =>
       \A clause_type \in DOMAIN result :
         OrderedSelection(result[clause_type].keywords_found,
                          LoadClausePatterns[clause_type].keywords)

\* a document whose sentences name the CCPA terms in another order than the
\* catalog, twice over: the found terms come in catalog order, once each
C21_Witness ==
  /\ call.op = "check_compliance"
  /\ extracted_text = Document(<<3, 3>>)
  /\ result.regulations["CCPA"].found_requirements =
       <<"personal information", "consumer rights", "opt-out">>

\* C22: for the empty text every result is well-formed:
\* check_specific_compliance("", ["GDPR"]) has overall_score 0 with all GDPR
\* required terms missing, detect_clauses("") returns found = false for every
\* clause type of the catalog, and calculate_risk_score("") returns
\* overall_score 0, level LOW and empty factors_found lists
C22_EmptyTextWellFormed ==
  extracted_text = "" =>
    /\ (call.op = "check_specific_compliance" /\ call.regulations = <<"GDPR">>) =>
         /\ result.overall_score = RatInt(0)
         /\ DOMAIN result.regulations = {"GDPR"}
         /\ result.regulations["GDPR"].score = RatInt(0)
         /\ result.regulations["GDPR"].found_requirements = <<>>
         /\ result.missing_requirements = LoadComplianceRules["GDPR"].required_terms
    /\ call.op = "detect_clauses" =>
         /\ DOMAIN result = DOMAIN LoadClausePatterns
         /\ \A clause_type \in DOMAIN result : ~result[clause_type].found
    /\ call.op = "calculate_risk_score" =>
         /\ result.overall_score = 0
         /\ result.risk_level = "LOW"
         /\ result.factors_found =
              [high_risk |-> <<>>, medium_risk |-> <<>>, low_risk |-> <<>>]

\* the empty document scored against GDPR alone: six terms missing
C22_Witness ==
  /\ extracted_text = ""
  /\ call.op = "check_specific_compliance"
  /\ call.regulations = <<"GDPR">>
  /\ Len(result.missing_requirements) = 6
  /\ result.overall_score = RatInt(0)

\* the sum of the lengths of one list of the regulation results held in a
\* regulations mapping, over the names in S
RECURSIVE SumOfLengths(_, _, _)
SumOfLengths(regulations, key, S) ==
  IF S = {} THEN 0
  ELSE LET name == CHOOSE n \in S : TRUE
       IN  Len(regulations[name][key]) + SumOfLengths(regulations, key, S \ {name})

\* the risk indicators of the named regulations that the text holds, name
\* after name
RECURSIVE RiskOver(_, _)
RiskOver(names, text_lower) ==
  IF names = <<>> THEN <<>>
  ELSE SelectSeq(LoadComplianceRules[Head(names)].risk_indicators,
                 LAMBDA term : Contains(term, text_lower))
       \o RiskOver(Tail(names), text_lower)

\* C23: in every compliance report the top-level missing_requirements is the
\* concatenation, in evaluation order, of the missing_requirements of the
\* regulations evaluated, the top-level risk_factors the concatenation of
\* their risk_factors, and the length of each top-level list is the sum of
\* the lengths of the per-regulation lists held in the regulations mapping
C23_TopListsSumOfMapping ==
  IsComplianceReport =>
    /\ result.missing_requirements = MissingOver(EvaluatedNames, Lower(extracted_text))
    /\ result.risk_factors = RiskOver(EvaluatedNames, Lower(extracted_text))
    /\ Len(result.missing_requirements) =
         SumOfLengths(result.regulations, "missing_requirements", DOMAIN result.regulations)
    /\ Len(result.risk_factors) =
         SumOfLengths(result.regulations, "risk_factors", DOMAIN result.regulations)

(***************************************************************************)
(* The matches detect_clauses records.                                     *)
(***************************************************************************)
\* occ lists the non-overlapping occurrences of the pattern in the text from
\* left to right: each is a match, each starts at or after the end of the
\* one before, and no match starts in the text left between them
LeftToRightOccurrences(occ, items, text) ==
  LET text_lower == Lower(text)
      From(k) == IF k = 1 THEN 0 ELSE occ[k - 1].end
  IN  /\ \A k \in 1..Len(occ) :
           /\ From(k) <= occ[k].start
           /\ occ[k].start < occ[k].end
           /\ occ[k].end = MatchEnd(items, text_lower, occ[k].start)
           /\ \A p \in From(k)..(occ[k].start - 1) : MatchEnd(items, text_lower, p) = -1
      /\ \A p \in From(Len(occ) + 1)..(Len(text) - 1) : MatchEnd(items, text_lower, p) = -1

\* the occurrences of the patterns from the i-th on, pattern after pattern
RECURSIVE OccurrencesFrom(_, _, _)
OccurrencesFrom(patterns, text, i) ==
  IF i > Len(patterns) THEN <<>>
  ELSE FindIter(patterns[i], text) \o OccurrencesFrom(patterns, text, i + 1)

\* the characters of the text from max(0, start - 50) to min(len, end + 50)
Window(text, start, end) ==
  LET from == IF start - 50 > 0 THEN start - 50 ELSE 0
      to   == IF end + 50 < Len(text) THEN end + 50 ELSE Len(text)
  IN  SubSeq(text, from + 1, to)

\* C24 as stated: for each pattern the non-overlapping occurrences are
\* recorded in left-to-right order, and each recorded match carries
\* position = the start offset of the match (0 <= position < len(text)) and
\* context = the characters of the text from max(0, start - 50) to
\* min(len(text), end + 50)
C24_ContextIsFullWindow ==
  call.op = "detect_clauses" =>
    \A clause_type \in DOMAIN result :
      LET patterns == LoadClausePatterns[clause_type].patterns
          occ      == OccurrencesFrom(patterns, extracted_text, 1)
          matches  == result[clause_type].matches
      IN  /\ \A i \in 1..Len(patterns) :
               LeftToRightOccurrences(FindIter(patterns[i], extracted_text),
                                      patterns[i], extracted_text)
          /\ \A k \in 1..Len(matches) :
               /\ matches[k].position = occ[k].start
               /\ 0 <= matches[k].position
               /\ matches[k].position < Len(extracted_text)
               /\ matches[k].match = SubSeq(extracted_text, occ[k].start + 1, occ[k].end)
               /\ matches[k].context = Window(extracted_text, occ[k].start, occ[k].end)

\* C24 amended: as above, with context = the characters of the text from
\* max(0, start - 50) to min(len(text), end + 50) without the white space at
\* the two ends of that window
C24_ContextIsTrimmedWindow ==
  call.op = "detect_clauses" =>
    \A clause_type \in DOMAIN result :
      LET patterns == LoadClausePatterns[clause_type].patterns
          occ      == OccurrencesFrom(patterns, extracted_text, 1)
          matches  == result[clause_type].matches
      IN  /\ \A i \in 1..Len(patterns) :
               LeftToRightOccurrences(FindIter(patterns[i], extracted_text),
                                      patterns[i], extracted_text)
          /\ \A k \in 1..Len(matches) :
               /\ matches[k].position = occ[k].start
               /\ 0 <= matches[k].position
               /\ matches[k].position < Len(extracted_text)
               /\ matches[k].match = SubSeq(extracted_text, occ[k].start + 1, occ[k].end)
               /\ LET window == Window(extracted_text, occ[k].start, occ[k].end)
                      inked  == { j \in 1..Len(window) :
                                    SubSeq(window, j, j) \notin Whitespace }
                  IN  matches[k].context = SubSeq(window, SetMin(inked), SetMax(inked))

\* a match more than 50 characters into the text whose window begins or
\* ends with white space: the context is shorter than the window
C24_Witness ==
  /\ call.op = "detect_clauses"
  /\ \E clause_type \in DOMAIN result :
       \E k \in 1..Len(result[clause_type].matches) :
         LET m == result[clause_type].matches[k]
         IN  /\ m.position > 50
             /\ Len(m.context) <
                  Len(Window(extracted_text, m.position, m.position + Len(m.match)))

(***************************************************************************)
(* Arguments that are not strings.                                         *)
(***************************************************************************)
\* C25: when the text argument is None every core operation fails with a
\* ValidationError and returns no result, whatever the other arguments are
\* (an empty or all-unknown name list included)
C25_NoneTextIsValidationError ==
  "text_is_none" \in DOMAIN call => result = RaisedError("ValidationError")

(***************************************************************************)
(* Reports over no regulation, and the two faces of a risk analysis.       *)
(***************************************************************************)
\* C26: when check_specific_compliance evaluates no regulation (empty list
\* or unknown names only) the report is, for every text, overall_score 0, an
\* empty regulations mapping, empty missing_requirements and risk_factors,
\* and the single recommendation 'Document requires significant compliance
\* improvements'; the 'good compliance' notice is not produced
C26_NothingEvaluatedReport ==
  (call.op = "check_specific_compliance"
     /\ \A i \in DOMAIN call.regulations : call.regulations[i] \notin DOMAIN LoadComplianceRules)
  => /\ result.overall_score = RatInt(0)
     /\ DOMAIN result.regulations = {}
     /\ result.missing_requirements = <<>>
     /\ result.risk_factors = <<>>
     /\ result.recommendations = <<LowScoreNotice>>

\* an unknown name requested twice for a document that holds compliance
\* terms
C26_Witness ==
  /\ call.op = "check_specific_compliance"
  /\ call.regulations = <<"PCI-DSS", "PCI-DSS">>
  /\ extracted_text = Document(<<1, 3>>)
  /\ result.recommendations = <<LowScoreNotice>>

\* C27: in every risk analysis overall_score is a multiple of 5 in [0, 100],
\* LOW implies overall_score <= 35, MEDIUM implies 40 <= overall_score <= 70,
\* HIGH implies overall_score >= 75, and overall_score = 100 implies HIGH
C27_LevelAgreesWithScore ==
  call.op = "calculate_risk_score" =>
    /\ result.overall_score % 5 = 0
    /\ 0 <= result.overall_score
    /\ result.overall_score <= 100
    /\ result.risk_level \in {"LOW", "MEDIUM", "HIGH"}
    /\ result.risk_level = "LOW" => result.overall_score <= 35
    /\ result.risk_level = "MEDIUM" => (40 <= result.overall_score /\ result.overall_score <= 70)
    /\ result.risk_level = "HIGH" => result.overall_score >= 75
    /\ result.overall_score = 100 => result.risk_level = "HIGH"

\* a document whose terms weigh 21: the score is capped at 100, the level
\* is HIGH
C27_Witness ==
  /\ call.op = "calculate_risk_score"
  /\ WeightedHits(extracted_text) = 21
  /\ result.overall_score = 100
  /\ result.risk_level = "HIGH"

(***************************************************************************)
(* The risk level of AIProcessor.                                          *)
(***************************************************************************)
\* the risk keywords that occur in the text, as a set
RiskKeywordsPresent(text) ==
  LET text_lower == Lower(text)
  IN  { i \in 1..Len(RiskKeywords) : Contains(RiskKeywords[i], text_lower) }

\* C28: for every text _assess_risk_level returns the MEDIUM or the LOW
\* message and never the HIGH message: the count is the number of distinct
\* keywords of the 10-element list found in the text, at most 10, and HIGH
\* requires a count above 10
C28_NeverHighRiskLevel ==
  call.op = "_assess_risk_level" =>
    LET risk_count == Cardinality(RiskKeywordsPresent(extracted_text))
    IN  /\ risk_count <= 10
        /\ result # "HIGH - Multiple risk-related terms detected"
        /\ result = IF risk_count > 5 THEN "MEDIUM - Some risk-related terms found"
                    ELSE "LOW - Few risk indicators detected"

\* a document that holds all ten keywords: the level is MEDIUM
C28_Witness ==
  /\ call.op = "_assess_risk_level"
  /\ Cardinality(RiskKeywordsPresent(extracted_text)) = 10
  /\ result = "MEDIUM - Some risk-related terms found"

(***************************************************************************)
(* The upload endpoints: validation errors and the temporary file.         *)
(***************************************************************************)
\* the validation of the endpoints rejects the request: no file name, an
\* extension other than .pdf, .doc, .docx, or more than 10 MB of content
ValidationRejects(req) ==
  \/ req.filename = ""
  \/ Lower(Suffix(req.filename)) \notin {".pdf", ".doc", ".docx"}
  \/ req.size > 10 * 1024 * 1024

\* C29: in each of the three upload endpoints a request rejected by input
\* validation (missing file name, extension other than .pdf/.doc/.docx,
\* content larger than 10 MB) is answered with status 400 and never with 500
C29_ValidationRejectionIs400 ==
  (request.pc = "done" /\ ValidationRejects(request)) => request.status_code = 400

\* C30: once the content has been written to the temporary file, the file
\* is removed on every path before the endpoint returns or raises (success,
\* extraction or analysis exception, blank-text rejection): no completed
\* request leaves its temporary file behind
C30_TempFileRemoved ==
  request.pc \in {"except", "done", "idle"} => temp_files = {}

\* a request whose text extraction raised: answered 500, its file written
\* and removed
C30_Witness ==
  /\ request.pc = "done"
  /\ request.temp_file_path # 0
  /\ request.status_code = 500
  /\ request.temp_file_path \notin temp_files

====
